---- MODULE Spec2Model ----
(***************************************************************************)
(* A model of the frontmatter codec (src/utils/frontmatter.ts), the        *)
(* wikilink, tag and summary extractors (src/utils/markdown.ts) and the    *)
(* vault-wide link analysis tools (src/tools/links.ts) of the Obsidian     *)
(* MCP server.                                                             *)
(*                                                                         *)
(* A JavaScript string is modelled as a sequence of one-character strings, *)
(* so that every regular expression, split, trim and case conversion of    *)
(* the source is computed character by character.                          *)
(***************************************************************************)
EXTENDS Integers, Sequences, FiniteSets, TLC

VARIABLES
    rtFm,         \* round trip: the frontmatter object given to stringifyFrontmatter
    rtBody,       \* round trip: the body appended to the block
    rtParsed,     \* round trip: what parseFrontmatter returns for block + body
    content,      \* codec: the note content the write helpers are applied to
    content0,     \* codec: the content the sequence of write helpers started from
    lastOp,       \* codec: the last helper call, its arguments and its outcome
    steps,        \* codec: number of helper calls made so far
    vaultDirs,    \* vault: directory path -> the entries listDirectory returns
    vaultNotes,   \* vault: file path -> [ok, text], what getFile returns
    report,       \* links: the JSON report of the last analysis tool call
    input,        \* functions: the text a pure function is applied to
    output,       \* functions: the function last applied and what it returned
    file,         \* add_tags: the content of the note in the vault
    calls         \* add_tags: call -> its tags, its position and its locals

vars == <<rtFm, rtBody, rtParsed, content, content0, lastOp, steps, vaultDirs, vaultNotes, report,
         input, output, file, calls>>

----------------------------------------------------------------------------
(* Characters and JavaScript string primitives *)

LowerLetters ==
    <<"a","b","c","d","e","f","g","h","i","j","k","l","m",
      "n","o","p","q","r","s","t","u","v","w","x","y","z">>

UpperLetters ==
    <<"A","B","C","D","E","F","G","H","I","J","K","L","M",
      "N","O","P","Q","R","S","T","U","V","W","X","Y","Z">>

DigitChars == <<"0","1","2","3","4","5","6","7","8","9">>

Range(f) == {f[i] : i \in DOMAIN f}

Min(S) == CHOOSE x \in S : \A y \in S : x <= y
Max(S) == CHOOSE x \in S : \A y \in S : x >= y

IsDigit(c) == c \in Range(DigitChars)
IsAlpha(c) == c \in Range(LowerLetters) \cup Range(UpperLetters)
\* \s of a JavaScript regular expression, and the characters trim() strips
IsSpace(c) == c \in {" ", "\t", "\n", "\r"}
ToLowerChar(c) ==
    IF c \in Range(UpperLetters)
    THEN LowerLetters[CHOOSE i \in DOMAIN UpperLetters : UpperLetters[i] = c]
    ELSE c

toLowerCase(s) == [i \in 1..Len(s) |-> ToLowerChar(s[i])]

\* s.slice(from), from a 0-based offset
SliceFrom(s, from) == SubSeq(s, from + 1, Len(s))

\* does p occur in s at 1-based index i
HasAt(s, i, p) ==
    /\ i >= 1
    /\ i + Len(p) - 1 <= Len(s)
    /\ \A j \in 1..Len(p) : s[i + j - 1] = p[j]

startsWith(s, p) == HasAt(s, 1, p)
endsWith(s, p) == Len(p) <= Len(s) /\ HasAt(s, Len(s) - Len(p) + 1, p)
includes(s, c) == \E i \in 1..Len(s) : s[i] = c

trim(s) ==
    LET keep == {i \in 1..Len(s) : ~IsSpace(s[i])}
    IN  IF keep = {} THEN <<>> ELSE SubSeq(s, Min(keep), Max(keep))

\* s.split(c) for a one-character separator c
RECURSIVE split(_, _)
split(s, c) ==
    LET at == {i \in 1..Len(s) : s[i] = c}
    IN  IF at = {} THEN <<s>>
        ELSE <<SubSeq(s, 1, Min(at) - 1)>> \o split(SliceFrom(s, Min(at)), c)

\* s.split(/\r?\n/)
RECURSIVE splitLines(_)
splitLines(s) ==
    LET at == {i \in 1..Len(s) : s[i] = "\n"}
    IN  IF at = {} THEN <<s>>
        ELSE LET i == Min(at)
                 e == IF i > 1 /\ s[i - 1] = "\r" THEN i - 2 ELSE i - 1
             IN  <<SubSeq(s, 1, e)>> \o splitLines(SliceFrom(s, i))

\* lines.join(sep)
RECURSIVE join(_, _)
join(parts, sep) ==
    IF Len(parts) = 0 THEN <<>>
    ELSE IF Len(parts) = 1 THEN parts[1]
    ELSE parts[1] \o sep \o join(Tail(parts), sep)

\* s.replace(/"/g, '\\"')
RECURSIVE escapeQuotes(_)
escapeQuotes(s) ==
    IF s = <<>> THEN <<>>
    ELSE (IF Head(s) = "\"" THEN <<"\\", "\"">> ELSE <<Head(s)>>)
         \o escapeQuotes(Tail(s))

\* the concatenation of the sequences f[lo], ..., f[hi]
RECURSIVE Flatten(_, _, _)
Flatten(f, lo, hi) ==
    IF lo > hi THEN <<>>
    ELSE IF lo = hi THEN f[lo]
    ELSE Flatten(f, lo, (lo + hi) \div 2) \o Flatten(f, (lo + hi) \div 2 + 1, hi)

\* s.split("/").pop()
lastSegment(s) == LET p == split(s, "/") IN p[Len(p)]

\* s.replace(/\.md$/, "")
stripMd(s) ==
    IF endsWith(s, <<".", "m", "d">>) THEN SubSeq(s, 1, Len(s) - 3) ELSE s

----------------------------------------------------------------------------
(* Frontmatter values: string | number | boolean | null | array.  Every    *)
(* value is a record of the same shape; a number is n / 10^f.              *)

StrV(s)    == [t |-> "str",  s |-> s,    n |-> 0, f |-> 0, a |-> <<>>]
NumV(n, f) == [t |-> "num",  s |-> <<>>, n |-> n, f |-> f, a |-> <<>>]
BoolV(b)   == [t |-> "bool", s |-> <<>>, n |-> IF b THEN 1 ELSE 0, f |-> 0, a |-> <<>>]
NullV      == [t |-> "null", s |-> <<>>, n |-> 0, f |-> 0, a |-> <<>>]
ArrV(a)    == [t |-> "arr",  s |-> <<>>, n |-> 0, f |-> 0, a |-> a]

RECURSIVE Pow10(_)
Pow10(k) == IF k = 0 THEN 1 ELSE 10 * Pow10(k - 1)

RECURSIVE NatToStr(_)
NatToStr(n) ==
    IF n < 10 THEN <<DigitChars[n + 1]>>
    ELSE NatToStr(n \div 10) \o <<DigitChars[(n % 10) + 1]>>

RECURSIVE DigitsToNat(_)
DigitsToNat(s) ==
    IF s = <<>> THEN 0
    ELSE 10 * DigitsToNat(SubSeq(s, 1, Len(s) - 1))
         + ((CHOOSE i \in DOMAIN DigitChars : DigitChars[i] = s[Len(s)]) - 1)

AllDigits(s) == Len(s) > 0 /\ \A i \in 1..Len(s) : IsDigit(s[i])

\* /^-?\d+$/
IsIntLiteral(s) ==
    IF startsWith(s, <<"-">>) THEN AllDigits(Tail(s)) ELSE AllDigits(s)

\* s without its sign
Unsigned(s) == IF startsWith(s, <<"-">>) THEN Tail(s) ELSE s

IsDecimalPair(p) == Len(p) = 2 /\ AllDigits(p[1]) /\ AllDigits(p[2])

\* /^-?\d+\.\d+$/
IsFloatLiteral(s) == IsDecimalPair(split(Unsigned(s), "."))

RECURSIVE Normalize(_, _)
Normalize(n, f) ==
    IF f > 0 /\ n % 10 = 0 THEN Normalize(n \div 10, f - 1) ELSE NumV(n, f)

\* parseInt(value, 10) of an integer literal
parseInt(s) ==
    IF startsWith(s, <<"-">>) THEN NumV(0 - DigitsToNat(Tail(s)), 0)
    ELSE NumV(DigitsToNat(s), 0)

\* the number whose integer and fraction digits are p[1] and p[2]
DecimalOf(p) ==
    Normalize(DigitsToNat(p[1]) * Pow10(Len(p[2])) + DigitsToNat(p[2]), Len(p[2]))

Negated(v) == NumV(0 - v.n, v.f)

\* parseFloat(value) of a float literal
parseFloat(s) ==
    IF startsWith(s, <<"-">>) THEN Negated(DecimalOf(split(Tail(s), ".")))
    ELSE DecimalOf(split(s, "."))

\* String(value) of a number
NumToStr(v) ==
    LET m == IF v.n < 0 THEN 0 - v.n ELSE v.n
        sign == IF v.n < 0 THEN <<"-">> ELSE <<>>
        frac == NatToStr(m % Pow10(v.f))
        pad == [i \in 1..(v.f - Len(frac)) |-> "0"]
    IN  IF v.f = 0 THEN sign \o NatToStr(m)
        ELSE sign \o NatToStr(m \div Pow10(v.f)) \o <<".">> \o pad \o frac

----------------------------------------------------------------------------
(* A frontmatter object: its keys in insertion order, each with its value. *)

Has(fm, k) == \E i \in 1..Len(fm) : fm[i].k = k
Get(fm, k) == fm[CHOOSE i \in 1..Len(fm) : fm[i].k = k].v

\* fm[k] = v; an existing key keeps its place, a new key is appended
Put(fm, k, v) ==
    IF Has(fm, k)
    THEN [i \in 1..Len(fm) |-> IF fm[i].k = k THEN [k |-> k, v |-> v] ELSE fm[i]]
    ELSE Append(fm, [k |-> k, v |-> v])

\* { ...fm, ...updates }
RECURSIVE Spread(_, _)
Spread(fm, updates) ==
    IF updates = <<>> THEN fm
    ELSE Spread(Put(fm, Head(updates).k, Head(updates).v), Tail(updates))

\* Array.isArray(frontmatter[k])
IsArrayField(fm, k) == Has(fm, k) /\ Get(fm, k).t = "arr"

\* the equality of Set: same type and same value, an array only to itself
SameValueZero(x, y) == x.t = y.t /\ x.t # "arr" /\ x = y

\* [...new Set(items)]: an item stays when no earlier item is the same
RECURSIVE DedupFrom(_, _)
DedupFrom(items, i) ==
    IF i > Len(items) THEN <<>>
    ELSE (IF \E j \in 1..(i - 1) : SameValueZero(items[j], items[i])
          THEN <<>> ELSE <<items[i]>>) \o DedupFrom(items, i + 1)

Dedup(items) == DedupFrom(items, 1)

KeyTags == <<"t", "a", "g", "s">>
KeyAliases == <<"a", "l", "i", "a", "s", "e", "s">>
Delim == <<"-", "-", "-">>

----------------------------------------------------------------------------
(* The YAML subset parser *)

\* number of leading whitespace characters
LeadingSpaces(s) ==
    LET non == {i \in 1..Len(s) : ~IsSpace(s[i])}
    IN  IF non = {} THEN Len(s) ELSE Min(non) - 1

\* s without its leading whitespace (the \s* of a regular expression)
skipSpaces(s) == SliceFrom(s, LeadingSpaces(s))

RECURSIVE parseYamlValue(_)

\* the inline array branch: value.slice(1, -1), split on "," and parsed
parseYamlItems(items) ==
    ArrV([i \in 1..Len(items) |-> parseYamlValue(trim(items[i]))])

parseYamlInline(inner) ==
    IF trim(inner) = <<>> THEN ArrV(<<>>)
    ELSE parseYamlItems(split(inner, ","))

\* the branches after the quoted string; lower is value.toLowerCase()
parseYamlUnquoted(value, lower) ==
    IF lower = <<"t", "r", "u", "e">> THEN BoolV(TRUE)
    ELSE IF lower = <<"f", "a", "l", "s", "e">> THEN BoolV(FALSE)
    ELSE IF lower = <<"n", "u", "l", "l">> \/ value = <<"~">> THEN NullV
    ELSE IF IsIntLiteral(value) THEN parseInt(value)
    ELSE IF IsFloatLiteral(value) THEN parseFloat(value)
    ELSE IF startsWith(value, <<"[">>) /\ endsWith(value, <<"]">>)
    THEN parseYamlInline(SubSeq(value, 2, Len(value) - 1))
    ELSE StrV(value)

parseYamlValueUnquoted(value) == parseYamlUnquoted(value, toLowerCase(value))

parseYamlValue(value) ==
    IF \/ startsWith(value, <<"\"">>) /\ endsWith(value, <<"\"">>)
       \/ startsWith(value, <<"'">>) /\ endsWith(value, <<"'">>)
    THEN StrV(SubSeq(value, 2, Len(value) - 1))
    ELSE parseYamlUnquoted(value, toLowerCase(value))

\* length of the match of /^\s*-\s+/ in line when lead characters of
\* whitespace come first, 0 when it does not match
ArrayItemAfter(line, lead) ==
    IF /\ lead + 2 <= Len(line)
       /\ line[lead + 1] = "-"
       /\ IsSpace(line[lead + 2])
    THEN lead + 1 + LeadingSpaces(SliceFrom(line, lead + 1))
    ELSE 0

ArrayItemPrefix(line) == ArrayItemAfter(line, LeadingSpaces(line))

IsKeyChar(c) == IsAlpha(c) \/ IsDigit(c) \/ c \in {"_", "-"}

NoKeyMatch == [matched |-> FALSE, key |-> <<>>, value |-> <<>>]

\* the length of the match of [a-zA-Z_][a-zA-Z0-9_-]* at the start of line
KeyEnd(line) ==
    LET stop == {i \in 2..Len(line) : ~IsKeyChar(line[i])}
    IN  IF stop = {} THEN Len(line) ELSE Min(stop) - 1

\* (.*)?$ : the value may hold no line terminator
KeyMatchValue(key, value) ==
    IF includes(value, "\r") \/ includes(value, "\n") THEN NoKeyMatch
    ELSE [matched |-> TRUE, key |-> key, value |-> value]

\* :\s* then the value
KeyMatchColon(key, rest) ==
    IF ~startsWith(rest, <<":">>) THEN NoKeyMatch
    ELSE KeyMatchValue(key, skipSpaces(Tail(rest)))

KeyMatchKey(line, klen) ==
    KeyMatchColon(SubSeq(line, 1, klen), skipSpaces(SliceFrom(line, klen)))

\* the match of /^([a-zA-Z_][a-zA-Z0-9_-]*)\s*:\s*(.*)?$/ in line
KeyMatch(line) ==
    IF Len(line) = 0 \/ ~(IsAlpha(line[1]) \/ line[1] = "_") THEN NoKeyMatch
    ELSE KeyMatchKey(line, KeyEnd(line))

\* the state of the loop of parseYaml is st = [result, currentKey, open,
\* currentArray], open standing for currentArray !== null

\* if (currentKey && currentArray) result[currentKey] = currentArray
savePending(st) ==
    IF st.open /\ st.currentKey # <<>>
    THEN Put(st.result, st.currentKey, ArrV(st.currentArray))
    ELSE st.result

\* an array item line
pushItem(st, value) ==
    IF st.open
    THEN [st EXCEPT !.currentArray = Append(@, parseYamlValue(value))]
    ELSE st

\* a key line, the pending array saved
setKey(saved, key, valueStr) ==
    IF valueStr = <<>>
    THEN [result |-> saved, currentKey |-> key,
          open |-> TRUE, currentArray |-> <<>>]
    ELSE [result |-> Put(saved, key, parseYamlValue(valueStr)),
          currentKey |-> key, open |-> FALSE, currentArray |-> <<>>]

keyLine(st, m) ==
    IF ~m.matched THEN st ELSE setKey(savePending(st), m.key, trim(m.value))

itemOrKeyLine(st, line, prefix) ==
    IF prefix > 0 THEN pushItem(st, trim(SliceFrom(line, prefix)))
    ELSE keyLine(st, KeyMatch(line))

\* one iteration of the loop over the lines
parseYamlLine(st, line) ==
    IF trim(line) = <<>> THEN st
    ELSE itemOrKeyLine(st, line, ArrayItemPrefix(line))

RECURSIVE parseYamlLines(_, _)
parseYamlLines(st, lines) ==
    IF lines = <<>> THEN st
    ELSE parseYamlLines(parseYamlLine(st, Head(lines)), Tail(lines))

parseYaml(yaml) ==
    savePending(parseYamlLines([result |-> <<>>, currentKey |-> <<>>,
                                open |-> FALSE, currentArray |-> <<>>],
                               splitLines(yaml)))

\* FRONTMATTER_REGEX = /^---\r?\n([\s\S]*?)\r?\n---\r?\n?/

\* ^---\r?\n : the number of characters matched, 0 for none
frontmatterOpen(c) ==
    IF HasAt(c, 1, Delim \o <<"\n">>) THEN 4
    ELSE IF HasAt(c, 1, Delim \o <<"\r", "\n">>) THEN 5
    ELSE 0

\* ([\s\S]*?)\r?\n--- : the first index where the closing line break is, 0 for none
frontmatterClose(c, open) ==
    LET ends == {e \in (open + 1)..Len(c) :
                    \/ HasAt(c, e, <<"\n">> \o Delim)
                    \/ HasAt(c, e, <<"\r", "\n">> \o Delim)}
    IN  IF ends = {} THEN 0 ELSE Min(ends)

\* an optional character ch at index i: the index after it
skipOptional(c, i, ch) == IF HasAt(c, i, <<ch>>) THEN i + 1 ELSE i

\* \r?\n? after the closing delimiter, which ends before index a
frontmatterEnd(c, a) == skipOptional(c, skipOptional(c, a, "\r"), "\n")

frontmatterMatch(c, open, e) ==
    IF open = 0 \/ e = 0
    THEN [matched |-> FALSE, raw |-> <<>>, yaml |-> <<>>]
    ELSE [matched |-> TRUE,
          raw |-> SubSeq(c, 1, frontmatterEnd(c, e + (IF c[e] = "\r" THEN 5 ELSE 4)) - 1),
          yaml |-> SubSeq(c, open + 1, e - 1)]

frontmatterFrom(c, open) ==
    frontmatterMatch(c, open, IF open = 0 THEN 0 ELSE frontmatterClose(c, open))

\* content.match(FRONTMATTER_REGEX)
FRONTMATTER_REGEX(c) == frontmatterFrom(c, frontmatterOpen(c))

parsedOf(c, m) ==
    IF ~m.matched THEN [frontmatter |-> <<>>, body |-> c, raw |-> <<>>]
    ELSE [frontmatter |-> parseYaml(m.yaml),
          body |-> SliceFrom(c, Len(m.raw)),
          raw |-> m.raw]

\* parseYaml never throws, so the catch branch of parseFrontmatter is dead
parseFrontmatter(c) == parsedOf(c, FRONTMATTER_REGEX(c))

----------------------------------------------------------------------------
(* The YAML subset writer *)

\* String(value), as Array.prototype.join converts its elements
RECURSIVE JsToString(_)
JsToString(v) ==
    CASE v.t = "str" -> v.s
      [] v.t = "num" -> NumToStr(v)
      [] v.t = "bool" -> IF v.n = 1 THEN <<"t", "r", "u", "e">>
                         ELSE <<"f", "a", "l", "s", "e">>
      [] v.t = "null" -> <<"n", "u", "l", "l">>
      [] v.t = "arr" ->
            join([i \in 1..Len(v.a) |->
                    IF v.a[i].t = "null" THEN <<>> ELSE JsToString(v.a[i])],
                 <<",">>)

\* the characters of the class in the test of the first character of the string
\* (the grave accent cannot be written in a string of this language: the
\* token "GRAVE" stands for that one character)
Grave == "GRAVE"
YamlSignificant == {"[", "]", "{", "}", ">", "|", "*", "&", "!", "%", "@", Grave}

NeedsQuotesAlways(s) == TRUE

NeedsQuotes(s) ==
    \/ includes(s, ":")
    \/ includes(s, "#")
    \/ includes(s, "\n")
    \/ startsWith(s, <<" ">>)
    \/ endsWith(s, <<" ">>)
    \/ (Len(s) > 0 /\ s[1] \in YamlSignificant)

stringifyYamlValue(v) ==
    IF v.t = "str"
    THEN IF NeedsQuotes(v.s) THEN <<"\"">> \o escapeQuotes(v.s) \o <<"\"">>
         ELSE v.s
    ELSE JsToString(v)

\* the lines stringifyYaml pushes for one key
stringifyEntry(e) ==
    IF e.v.t = "arr"
    THEN IF Len(e.v.a) = 0 THEN <<e.k \o <<":", " ", "[", "]">>>>
         ELSE <<e.k \o <<":">>>> \o
              [i \in 1..Len(e.v.a) |->
                  <<" ", " ", "-", " ">> \o stringifyYamlValue(e.v.a[i])]
    ELSE <<e.k \o <<":", " ">> \o stringifyYamlValue(e.v)>>

RECURSIVE stringifyLines(_)
stringifyLines(fm) ==
    IF fm = <<>> THEN <<>>
    ELSE stringifyEntry(Head(fm)) \o stringifyLines(Tail(fm))

\* stringifyYaml(obj, 0)
stringifyYaml(fm) == join(stringifyLines(fm), <<"\n">>) \o <<"\n">>

stringifyFrontmatter(fm) ==
    IF Len(fm) = 0 THEN <<>>
    ELSE Delim \o <<"\n">> \o stringifyYaml(fm) \o Delim \o <<"\n">>

----------------------------------------------------------------------------
(* The write helpers *)

\* Array.isArray(frontmatter[k]) ? frontmatter[k] : []
arrayField(fm, k) == IF IsArrayField(fm, k) THEN Get(fm, k).a ELSE <<>>

\* stringifyFrontmatter(fm) + body
rebuilt(fm, body) == stringifyFrontmatter(fm) \o body

updateParsed(p, updates) == rebuilt(Spread(p.frontmatter, updates), p.body)

updateFrontmatter(c, updates) == updateParsed(parseFrontmatter(c), updates)

\* tag.startsWith("#") ? tag.slice(1) : tag
stripHash(tag) == IF startsWith(tag, <<"#">>) THEN Tail(tag) ELSE tag

normalizedTags(tags) == [i \in 1..Len(tags) |-> StrV(stripHash(tags[i]))]

addTagsParsed(p, tags) ==
    rebuilt(Put(p.frontmatter, KeyTags,
                ArrV(Dedup(arrayField(p.frontmatter, KeyTags) \o normalizedTags(tags)))),
            p.body)

addTags(c, tags) == addTagsParsed(parseFrontmatter(c), tags)

\* tag.toLowerCase() of a frontmatter tag that is no string is a TypeError
hasNonString(old) == \E i \in 1..Len(old) : old[i].t # "str"

removeTagsThrows(c, tags) ==
    hasNonString(arrayField(parseFrontmatter(c).frontmatter, KeyTags))

\* existingTags.filter((tag) => !tagsToRemove.has(tag.toLowerCase()))
RECURSIVE filterTags(_, _)
filterTags(old, tagsToRemove) ==
    IF old = <<>> THEN <<>>
    ELSE (IF toLowerCase(Head(old).s) \in tagsToRemove THEN <<>> ELSE <<Head(old)>>)
         \o filterTags(Tail(old), tagsToRemove)

tagsToRemoveOf(tags) == {toLowerCase(stripHash(tags[i])) : i \in 1..Len(tags)}

removeTagsParsed(c, p, tags) ==
    IF ~IsArrayField(p.frontmatter, KeyTags) THEN c
    ELSE rebuilt(Put(p.frontmatter, KeyTags,
                     ArrV(filterTags(Get(p.frontmatter, KeyTags).a, tagsToRemoveOf(tags)))),
                 p.body)

\* the value removeTags returns when it does not throw
removeTags(c, tags) == removeTagsParsed(c, parseFrontmatter(c), tags)

addAliasesParsed(p, aliases) ==
    rebuilt(Put(p.frontmatter, KeyAliases,
                ArrV(Dedup(arrayField(p.frontmatter, KeyAliases)
                           \o [i \in 1..Len(aliases) |-> StrV(aliases[i])]))),
            p.body)

addAliases(c, aliases) == addAliasesParsed(parseFrontmatter(c), aliases)

----------------------------------------------------------------------------
(* The wikilink extractor *)

\* the index after the longest run, from index i, of characters not in stop
RunEnd(c, i, stop) ==
    LET hits == {j \in i..Len(c) : c[j] \in stop}
    IN  IF hits = {} THEN Len(c) + 1 ELSE Min(hits)

NoLinkMatch ==
    [matched |-> FALSE, end |-> 0, embed |-> FALSE, target |-> <<>>,
     hasHeading |-> FALSE, heading |-> <<>>,
     hasDisplay |-> FALSE, display |-> <<>>]

\* the match of /(!?)\[\[([^\]|#]+)(?:#([^\]|]+))?(?:\|([^\]]+))?\]\]/ that
\* starts at index i, group by group; end is the index after the match

\* \]\] at index q closes the match
linkClose(c, m, q) ==
    IF HasAt(c, q, <<"]", "]">>) THEN [m EXCEPT !.matched = TRUE, !.end = q + 2]
    ELSE NoLinkMatch

\* (?:\|([^\]]+))? at index p; d1 ends the run after the bar
linkDisplay(c, m, p, d1) ==
    IF HasAt(c, p, <<"|">>) /\ d1 > p + 1
    THEN linkClose(c, [m EXCEPT !.hasDisplay = TRUE,
                                !.display = SubSeq(c, p + 1, d1 - 1)], d1)
    ELSE linkClose(c, m, p)

linkAfterHeadingAcross(c, m, p) ==
    LET closes == {j \in p + 1..Len(c) : HasAt(c, j, <<"]", "]">>)}
    IN  linkDisplay(c, m, p, IF closes = {} THEN Len(c) + 1 ELSE Min(closes))

linkAfterHeading(c, m, p) == linkDisplay(c, m, p, RunEnd(c, p + 1, {"]"}))

\* (?:#([^\]|]+))? at index t1; h1 ends the run after the hash
linkHeading(c, m, t1, h1) ==
    IF HasAt(c, t1, <<"#">>) /\ h1 > t1 + 1
    THEN linkAfterHeading(c, [m EXCEPT !.hasHeading = TRUE,
                                       !.heading = SubSeq(c, t1 + 1, h1 - 1)], h1)
    ELSE linkAfterHeading(c, m, t1)

\* ([^\]|#]+) from index t0 to before index t1
linkTarget(c, embed, t0, t1) ==
    IF t1 = t0 THEN NoLinkMatch
    ELSE linkHeading(c, [NoLinkMatch EXCEPT !.embed = embed,
                                            !.target = SubSeq(c, t0, t1 - 1)],
                     t1, RunEnd(c, t1 + 1, {"]", "|"}))

linkOpen(c, embed, t0) == linkTarget(c, embed, t0, RunEnd(c, t0, {"]", "|", "#"}))

linkRegexAt(c, i) ==
    IF HasAt(c, i, <<"!", "[", "[">>) THEN linkOpen(c, TRUE, i + 3)
    ELSE IF HasAt(c, i, <<"[", "[">>) THEN linkOpen(c, FALSE, i + 2)
    ELSE NoLinkMatch

\* the NoteLink pushed for a match with the trimmed groups
noteLinkOf(m, target, heading, displayText) ==
    [target |-> IF m.hasHeading /\ heading # <<>>
                THEN target \o <<"#">> \o heading ELSE target,
     displayText |-> IF m.hasDisplay /\ displayText # <<>>
                     THEN displayText ELSE target,
     isEmbed |-> m.embed]

noteLink(m) == noteLinkOf(m, trim(m.target), trim(m.heading), trim(m.display))

RECURSIVE linkScan(_, _)

linkStep(c, i, m) ==
    IF m.matched THEN <<noteLink(m)>> \o linkScan(c, m.end)
    ELSE linkScan(c, i + 1)

\* the loop of regex.exec over the content, from index i
linkScan(c, i) ==
    IF i > Len(c) THEN <<>> ELSE linkStep(c, i, linkRegexAt(c, i))

extractInternalLinks(c) == linkScan(c, 1)

----------------------------------------------------------------------------
(* Inline tags: extractTagLinks of the extractor, getAllTags of the codec *)

IsWordChar(c) == IsAlpha(c) \/ IsDigit(c) \/ c = "_"
IsTagChar(c) == IsWordChar(c) \/ c \in {"/", "-"}

\* where the run [a-zA-Z0-9_/-]* that starts at index i ends (exclusive)
tagRunEnd(c, i) ==
    LET stops == {j \in i..Len(c) : ~IsTagChar(c[j])}
    IN  IF stops = {} THEN Len(c) + 1 ELSE Min(stops)

NoTagMatch == [matched |-> FALSE, tag |-> <<>>, end |-> 0]

tagMatchOf(c, i, end) ==
    [matched |-> TRUE, tag |-> SubSeq(c, i + 1, end - 1), end |-> end]

\* #([a-zA-Z][a-zA-Z0-9_/-]*) with its "#" at index i
inlineTagRegex(c, i) ==
    IF i + 1 <= Len(c) /\ c[i] = "#" /\ IsAlpha(c[i + 1])
    THEN tagMatchOf(c, i, tagRunEnd(c, i + 2)) ELSE NoTagMatch

\* (?:^|[^\w])#([a-zA-Z][a-zA-Z0-9_/-]*) tried at index i: ^ holds at the
\* start of the content only, [^\w] takes one character that is no word
\* character
tagRegexAfterNonWord(c, i) ==
    IF i <= Len(c) /\ ~IsWordChar(c[i]) THEN inlineTagRegex(c, i + 1)
    ELSE NoTagMatch

tagRegexAtStart(c, m) == IF m.matched THEN m ELSE tagRegexAfterNonWord(c, 1)

tagRegex(c, i) ==
    IF i = 1 THEN tagRegexAtStart(c, inlineTagRegex(c, 1))
    ELSE tagRegexAfterNonWord(c, i)

tagLink(tag) ==
    [source |-> <<>>, target |-> tag, displayText |-> <<"#">> \o tag,
     isEmbed |-> FALSE, type |-> "tag"]

RECURSIVE tagLinkScan(_, _)

tagLinkStep(c, i, m) ==
    IF m.matched THEN <<tagLink(m.tag)>> \o tagLinkScan(c, m.end)
    ELSE tagLinkScan(c, i + 1)

\* the loop of tagRegex.exec over the content, from index i
tagLinkScan(c, i) ==
    IF i > Len(c) THEN <<>> ELSE tagLinkStep(c, i, tagRegex(c, i))

extractTagLinks(c) == tagLinkScan(c, 1)

RECURSIVE inlineTagScan(_, _)

inlineTagStep(body, i, m) ==
    IF m.matched THEN <<StrV(m.tag)>> \o inlineTagScan(body, m.end)
    ELSE inlineTagScan(body, i + 1)

\* the loop of inlineTagRegex.exec over the body, from index i
inlineTagScan(body, i) ==
    IF i > Len(body) THEN <<>>
    ELSE inlineTagStep(body, i, inlineTagRegex(body, i))

frontmatterTags(frontmatter) ==
    IF IsArrayField(frontmatter, KeyTags) THEN Get(frontmatter, KeyTags).a
    ELSE <<>>

\* the Set keeps the first occurrence of every tag, in insertion order
allTagsOf(parsed) ==
    Dedup(frontmatterTags(parsed.frontmatter) \o inlineTagScan(parsed.body, 1))

getAllTags(c) == allTagsOf(parseFrontmatter(c))

----------------------------------------------------------------------------
(* getSummary: a chain of String.replace calls, then the truncation *)

LineTerminators == {"\n", "\r"}
Spaces == {" ", "\t", "\n", "\r"}
Fence == <<Grave, Grave, Grave>>

\* the least index j >= from at which p occurs in c, 0 when there is none
firstAt(c, from, p) ==
    LET hits == {j \in from..Len(c) : HasAt(c, j, p)}
    IN  IF hits = {} THEN 0 ELSE Min(hits)

\* where the run of characters of the set that starts at index i ends
\* (exclusive)
runPast(c, i, set) ==
    LET stops == {j \in i..Len(c) : c[j] \notin set}
    IN  IF stops = {} THEN Len(c) + 1 ELSE Min(stops)

\* a match of a regular expression at an index: the index after the match
\* and the text the replacement string puts in its place
NoReplace == [matched |-> FALSE, end |-> 0, out |-> <<>>]
replaced(end, out) == [matched |-> TRUE, end |-> end, out |-> out]

\* /^---[\s\S]*?---\n?/ : not global, ^ is the start of the content
blockEnd(c, close) ==
    IF close + 3 <= Len(c) /\ c[close + 3] = "\n" THEN close + 3 ELSE close + 2

dropBlock(c, close) == IF close = 0 THEN c ELSE SliceFrom(c, blockEnd(c, close))

withoutFrontmatter(c) ==
    IF startsWith(c, Delim) THEN dropBlock(c, firstAt(c, 4, Delim)) ELSE c

\* /^#+\s+.+$/gm : ^ is the start of a line, \s+ may run over line ends,
\* .+ is the rest of one line and has one character at least
lineStart(c, i) == i = 1 \/ c[i - 1] \in LineTerminators

headingText(c, t) == replaced(RunEnd(c, t, LineTerminators), <<>>)

\* \s+ took the whole content: it gives back down to the last character
\* that . accepts
headingGiveBack(c, p) ==
    LET given == {t \in (p + 1)..Len(c) : c[t] \notin LineTerminators}
    IN  IF given = {} THEN NoReplace ELSE headingText(c, Max(given))

headingSpace(c, p, q) ==
    IF q = p THEN NoReplace
    ELSE IF q <= Len(c) THEN headingText(c, q)
    ELSE headingGiveBack(c, p)

headingHashes(c, p) == headingSpace(c, p, runPast(c, p, Spaces))

headingAt(c, i) ==
    IF lineStart(c, i) /\ c[i] = "#" THEN headingHashes(c, runPast(c, i, {"#"}))
    ELSE NoReplace

\* /\[\[([^\]|]+)(?:\|([^\]]+))?\]\]/g replaced by "$2$1"
wikilinkText(target, display) == display \o target

wikilinkClose(c, e, target, display) ==
    IF HasAt(c, e, <<"]", "]">>) THEN replaced(e + 2, wikilinkText(target, display))
    ELSE NoReplace

wikilinkDisplay(c, e1, e2, target) ==
    IF e2 = e1 + 1 THEN NoReplace
    ELSE wikilinkClose(c, e2, target, SubSeq(c, e1 + 1, e2 - 1))

wikilinkTarget(c, i, e1) ==
    IF e1 = i + 2 \/ e1 > Len(c) THEN NoReplace
    ELSE IF c[e1] = "|"
         THEN wikilinkDisplay(c, e1, RunEnd(c, e1 + 1, {"]"}), SubSeq(c, i + 2, e1 - 1))
         ELSE wikilinkClose(c, e1, SubSeq(c, i + 2, e1 - 1), <<>>)

wikilinkAt(c, i) ==
    IF HasAt(c, i, <<"[", "[">>) THEN wikilinkTarget(c, i, RunEnd(c, i + 2, {"]", "|"}))
    ELSE NoReplace

\* /\[([^\]]+)\]\([^)]+\)/g replaced by "$1"
linkUrl(c, u, e2, out) ==
    IF e2 = u \/ e2 > Len(c) THEN NoReplace ELSE replaced(e2 + 1, out)

linkLabel(c, i, e1) ==
    IF e1 = i + 1 \/ ~HasAt(c, e1, <<"]", "(">>) THEN NoReplace
    ELSE linkUrl(c, e1 + 2, RunEnd(c, e1 + 2, {")"}), SubSeq(c, i + 1, e1 - 1))

markdownLinkAt(c, i) ==
    IF c[i] = "[" THEN linkLabel(c, i, RunEnd(c, i + 1, {"]"})) ELSE NoReplace

\* /!\[[^\]]*\]\([^)]+\)/g replaced by ""
imageAlt(c, e1) ==
    IF ~HasAt(c, e1, <<"]", "(">>) THEN NoReplace
    ELSE linkUrl(c, e1 + 2, RunEnd(c, e1 + 2, {")"}), <<>>)

imageAt(c, i) ==
    IF HasAt(c, i, <<"!", "[">>) THEN imageAlt(c, RunEnd(c, i + 2, {"]"}))
    ELSE NoReplace

\* /```[\s\S]*?```/g replaced by ""
fenceClose(close) == IF close = 0 THEN NoReplace ELSE replaced(close + 3, <<>>)

codeBlockAt(c, i) ==
    IF HasAt(c, i, Fence) THEN fenceClose(firstAt(c, i + 3, Fence)) ELSE NoReplace

\* /`[^`]+`/g replaced by ""
inlineCodeClose(c, i, e) ==
    IF e = i + 1 \/ e > Len(c) THEN NoReplace ELSE replaced(e + 1, <<>>)

inlineCodeAt(c, i) ==
    IF c[i] = Grave THEN inlineCodeClose(c, i, RunEnd(c, i + 1, {Grave}))
    ELSE NoReplace

\* .replace(/\s+/g, " ").trim()
whitespaceAt(c, i) ==
    IF c[i] \in Spaces THEN replaced(runPast(c, i, Spaces), <<" ">>)
    ELSE NoReplace

\* the match of one of the global regular expressions tried at index i
matchAt(regex, c, i) ==
    CASE regex = "headings" -> headingAt(c, i)
      [] regex = "wikilinks" -> wikilinkAt(c, i)
      [] regex = "links" -> markdownLinkAt(c, i)
      [] regex = "images" -> imageAt(c, i)
      [] regex = "codeBlocks" -> codeBlockAt(c, i)
      [] regex = "inlineCode" -> inlineCodeAt(c, i)
      [] regex = "whitespace" -> whitespaceAt(c, i)

\* c.replace(regex, replacement) for a global regex, from index i on
RECURSIVE replaceFrom(_, _, _)

replaceStep(c, i, regex, m) ==
    IF m.matched THEN m.out \o replaceFrom(c, m.end, regex)
    ELSE <<c[i]>> \o replaceFrom(c, i + 1, regex)

replaceFrom(c, i, regex) ==
    IF i > Len(c) THEN <<>> ELSE replaceStep(c, i, regex, matchAt(regex, c, i))

withoutHeadings(c) == replaceFrom(c, 1, "headings")

withoutLinks(c) ==
    replaceFrom(replaceFrom(c, 1, "wikilinks"), 1, "links")

withoutImages(c) == replaceFrom(c, 1, "images")

withoutCodeBlocks(c) == replaceFrom(c, 1, "codeBlocks")

withoutInlineCode(c) == replaceFrom(c, 1, "inlineCode")

cleaned(c) == trim(replaceFrom(c, 1, "whitespace"))

cleanedOf(text) ==
    cleaned(withoutInlineCode(withoutCodeBlocks(withoutImages(
        withoutLinks(withoutHeadings(withoutFrontmatter(text)))))))

\* s.lastIndexOf(ch), a 0-based offset or -1
lastIndexOf(s, ch) ==
    LET hits == {i \in 1..Len(s) : s[i] = ch}
    IN  IF hits = {} THEN 0 - 1 ELSE Max(hits) - 1

Ellipsis == <<".", ".", ".">>
SummaryDefaultMax == 200

\* lastSpace > maxLength * 0.7
breaksAtWordAlways(lastSpace, maxLength) == lastSpace >= 0

breaksAtWord(lastSpace, maxLength) == 10 * lastSpace > 7 * maxLength

cutAt(truncated, lastSpace, maxLength) ==
    IF breaksAtWord(lastSpace, maxLength)
    THEN SubSeq(truncated, 1, lastSpace) \o Ellipsis
    ELSE truncated \o Ellipsis

truncate(truncated, maxLength) ==
    cutAt(truncated, lastIndexOf(truncated, " "), maxLength)

summaryOf(text, maxLength) ==
    IF Len(text) <= maxLength THEN text
    ELSE truncate(SubSeq(text, 1, maxLength), maxLength)

getSummary(text, maxLength) == summaryOf(cleanedOf(text), maxLength)

\* countWords: the characters of /[#*_~`]/g, then the words between
\* whitespace
MarkdownSyntax == {"#", "*", "_", "~", Grave}

plainText(c) ==
    LET Kept(ch) == ch \notin MarkdownSyntax IN SelectSeq(withoutLinks(c), Kept)

wordsOf(c) ==
    Cardinality({i \in 1..Len(c) : ~IsSpace(c[i]) /\ (i = 1 \/ IsSpace(c[i - 1]))})

countWords(text) ==
    wordsOf(plainText(withoutInlineCode(withoutCodeBlocks(withoutFrontmatter(text)))))

----------------------------------------------------------------------------
(* extractHeadings and getContentUnderHeading *)

MaxHeadingLevel == 6

hasLineTerminator(line, from) ==
    \E j \in from..Len(line) : line[j] \in LineTerminators

heading(line, i, level, textFrom) ==
    <<[level |-> level, text |-> trim(SubSeq(line, textFrom, Len(line))),
       lineNumber |-> i, raw |-> line]>>

\* \s+(.+)$ after the hashes, which end before index p; q is where the
\* whitespace after them ends.  . takes no line terminator and $ is the end
\* of the line, so the rest of the line has none; when the whitespace runs
\* to the end of the line, \s+ gives its last character to .+
headingRest(line, i, p, q) ==
    IF q = p THEN <<>>
    ELSE IF q <= Len(line)
         THEN IF hasLineTerminator(line, q) THEN <<>>
              ELSE heading(line, i, p - 1, q)
         ELSE IF q - p < 2 \/ line[Len(line)] \in LineTerminators THEN <<>>
              ELSE heading(line, i, p - 1, Len(line))

\* ^(#{1,6}) : the hashes end before index p
headingLevel(p) == p - 1 >= 1 /\ p - 1 <= MaxHeadingLevel

headingHashesOf(line, i, p) ==
    IF headingLevel(p) THEN headingRest(line, i, p, runPast(line, p, Spaces))
    ELSE <<>>

\* line.match(/^(#{1,6})\s+(.+)$/) for line i: the heading pushed, if any
headingOfLine(line, i) == headingHashesOf(line, i, runPast(line, 1, {"#"}))

headingsOfLines(lines) ==
    Flatten([i \in 1..Len(lines) |-> headingOfLine(lines[i], i)], 1, Len(lines))

extractHeadings(text) == headingsOfLines(splitLines(text))

\* headings.find(pred): the index of the first heading that satisfies it, 0
\* for undefined
findHeading(headings, Pred(_)) ==
    LET hits == {k \in 1..Len(headings) : Pred(headings[k])}
    IN  IF hits = {} THEN 0 ELSE Min(hits)

closesSectionSameLevel(h, target) ==
    h.lineNumber > target.lineNumber /\ h.level = target.level

closesSection(h, target) ==
    h.lineNumber > target.lineNumber /\ h.level <= target.level

nextHeadingOf(headings, target) ==
    LET Closes(h) == closesSection(h, target)
    IN  findHeading(headings, Closes)

endLineOf(headings, lines, next) ==
    IF next = 0 THEN Len(lines) ELSE headings[next].lineNumber - 1

\* lines.slice(startLine, endLine).join("\n").trim()
sectionLines(lines, startLine, endLine) ==
    trim(join(SubSeq(lines, startLine + 1, endLine), <<"\n">>))

sectionOfTarget(headings, lines, target) ==
    [found |-> TRUE,
     text |-> sectionLines(lines, target.lineNumber,
                           endLineOf(headings, lines, nextHeadingOf(headings, target)))]

sectionAt(headings, lines, k) ==
    IF k = 0 THEN [found |-> FALSE, text |-> <<>>]
    ELSE sectionOfTarget(headings, lines, headings[k])

targetHeadingOf(headings, wanted) ==
    LET Matches(h) == toLowerCase(h.text) = toLowerCase(wanted)
    IN  findHeading(headings, Matches)

sectionOf(headings, lines, wanted) ==
    sectionAt(headings, lines, targetHeadingOf(headings, wanted))

\* found is FALSE for the result null
getContentUnderHeading(text, wanted) ==
    sectionOf(extractHeadings(text), splitLines(text), wanted)

----------------------------------------------------------------------------
(* The vault, as the REST client sees it *)

BrokenScanCap == 200
OrphanScanCap == 300
OrphanReportCap == 100
ListDepth == 10

MdExt == <<"m", "d">>

\* name.includes(".") ? name.slice(name.lastIndexOf(".") + 1) : undefined
extensionOf(name) ==
    LET dots == {i \in 1..Len(name) : name[i] = "."}
    IN  IF dots # {} THEN SliceFrom(name, Max(dots)) ELSE <<>>

\* the VaultItem pushed for an entry whose full path is fullPath
vaultItemOf(entry, fullPath, isDirectory) ==
    IF isDirectory
    THEN [name |-> SubSeq(entry, 1, Len(entry) - 1),
          path |-> SubSeq(fullPath, 1, Len(fullPath) - 1),
          type |-> "directory", extension |-> <<>>]
    ELSE [name |-> entry, path |-> fullPath,
          type |-> "file", extension |-> extensionOf(entry)]

\* the VaultItem listFilesRecursive pushes for an entry of directory path
vaultItem(path, entry) ==
    vaultItemOf(entry,
                IF path # <<>> THEN path \o <<"/">> \o entry ELSE entry,
                endsWith(entry, <<"/">>))

RECURSIVE listFilesRecursive(_, _, _)

\* items.push(item) and, for a directory, items.push(...subItems)
listWithSubs(items, sub) ==
    [ok |-> \A i \in 1..Len(items) : sub[i].ok,
     items |-> Flatten([i \in 1..Len(items) |-> <<items[i]>> \o sub[i].items],
                       1, Len(items))]

listItems(items, currentDepth, maxDepth) ==
    listWithSubs(items,
                 [i \in 1..Len(items) |->
                     IF items[i].type = "directory"
                     THEN listFilesRecursive(items[i].path, currentDepth + 1, maxDepth)
                     ELSE [ok |-> TRUE, items |-> <<>>]])

listEntries(path, entries, currentDepth, maxDepth) ==
    listItems([i \in 1..Len(entries) |-> vaultItem(path, entries[i])],
              currentDepth, maxDepth)

\* listDirectory fails for a path that is no directory of the vault; the
\* failure passes through listFilesRecursive and listAllFiles (ok = FALSE)
listFilesRecursive(path, currentDepth, maxDepth) ==
    IF currentDepth >= maxDepth THEN [ok |-> TRUE, items |-> <<>>]
    ELSE IF path \notin DOMAIN vaultDirs THEN [ok |-> FALSE, items |-> <<>>]
    ELSE listEntries(path, vaultDirs[path], currentDepth, maxDepth)

listAllFiles(basePath, maxDepth) == listFilesRecursive(basePath, 0, maxDepth)

\* allFiles.filter((f) => f.type === "file" && f.extension === "md")
mdFilesOf(allFiles) ==
    SelectSeq(allFiles, LAMBDA f : f.type = "file" /\ f.extension = MdExt)

\* getFile: the content, or a failure
getFile(path) ==
    IF path \in DOMAIN vaultNotes THEN vaultNotes[path]
    ELSE [ok |-> FALSE, text |-> <<>>]

\* the internal links of a read; none when the read fails (the catch)
linksOfRead(read) == IF read.ok THEN extractInternalLinks(read.text) ELSE <<>>

linksOfFile(path) == linksOfRead(getFile(path))

\* a read that fails inside the try block of a loop body
readEscapesUncaught(read) == ~read.ok

\* try { getFile ... } catch { }: the empty catch block of the loop body
\* lets no failed read out of the loop
readEscapes(read) == FALSE

\* whether an exception leaves the loop over the files
scanAborts(scanned) ==
    \E i \in 1..Len(scanned) : readEscapes(getFile(scanned[i].path))

\* folder || "/" in the result of a tool
folderLabel(folder) == IF folder = <<>> THEN <<"/">> ELSE folder

\* link.target.split("#")[0]
stripHeading(target) == split(target, "#")[1]

----------------------------------------------------------------------------
(* find_broken_links *)

\* the scan without its cap
brokenScannedAll(mdFiles) == mdFiles

\* mdFiles.slice(0, 200)
brokenScanned(mdFiles) == SubSeq(mdFiles, 1, Min({Len(mdFiles), BrokenScanCap}))

\* the three forms of a note path, lowercased
noteForms(path) ==
    {toLowerCase(path), toLowerCase(stripMd(path)),
     toLowerCase(stripMd(lastSegment(path)))}

existingNotesOf(mdFiles) ==
    UNION {noteForms(mdFiles[i].path) : i \in 1..Len(mdFiles)}

\* the test without its path tail alternatives and without .md appended
targetExistsInIndex(targetLower, existingNotes, mdFiles) ==
    targetLower \in existingNotes

\* the test of a lowercased target without its heading
targetExists(targetLower, existingNotes, mdFiles) ==
    \/ targetLower \in existingNotes
    \/ (targetLower \o <<".">> \o MdExt) \in existingNotes
    \/ \E i \in 1..Len(mdFiles) :
          \/ endsWith(toLowerCase(mdFiles[i].path),
                      <<"/">> \o targetLower \o <<".">> \o MdExt)
          \/ endsWith(toLowerCase(mdFiles[i].path), <<"/">> \o targetLower)

linkExists(link, existingNotes, mdFiles) ==
    targetExists(toLowerCase(stripHeading(link.target)), existingNotes, mdFiles)

\* the entries pushed to brokenLinks for the links bad of the file at path
brokenEntries(path, bad) ==
    [j \in 1..Len(bad) |-> [source |-> path, target |-> bad[j].target]]

brokenOfFile(path, existingNotes, mdFiles) ==
    brokenEntries(path,
                  SelectSeq(linksOfFile(path),
                            LAMBDA l : ~linkExists(l, existingNotes, mdFiles)))

brokenLinksOf(scanned, existingNotes, mdFiles) ==
    Flatten([i \in 1..Len(scanned) |->
                brokenOfFile(scanned[i].path, existingNotes, mdFiles)],
            1, Len(scanned))

brokenResult(folder, mdFiles, brokenLinks) ==
    [tool |-> "find_broken_links", args |-> [folder |-> folder],
     isError |-> FALSE, folder |-> folderLabel(folder),
     filesChecked |-> Min({Len(mdFiles), BrokenScanCap}),
     brokenLinksCount |-> Len(brokenLinks),
     brokenLinks |-> brokenLinks]

\* the result of the catch block of the handler
brokenError(folder) ==
    [tool |-> "find_broken_links", args |-> [folder |-> folder], isError |-> TRUE]

brokenOfNotes(folder, mdFiles) ==
    IF scanAborts(brokenScanned(mdFiles)) THEN brokenError(folder)
    ELSE brokenResult(folder, mdFiles,
                      brokenLinksOf(brokenScanned(mdFiles),
                                    existingNotesOf(mdFiles), mdFiles))

brokenOfListing(folder, listing) ==
    IF ~listing.ok THEN brokenError(folder)
    ELSE brokenOfNotes(folder, mdFilesOf(listing.items))

find_broken_links(folder) == brokenOfListing(folder, listAllFiles(folder, ListDepth))

----------------------------------------------------------------------------
(* find_orphan_notes *)

\* mdFiles.slice(0, 300)
orphanScanned(mdFiles) == SubSeq(mdFiles, 1, Min({Len(mdFiles), OrphanScanCap}))

\* the forms of a heading-stripped link target added to linkedTo
targetForms(targetLower) == {targetLower, targetLower \o <<".">> \o MdExt}

linkedForms(link) == targetForms(toLowerCase(stripHeading(link.target)))

\* the test of a note whose lowercased name without extension is noteName
nameLinkedTo(noteName, pathLower, linkedTo) ==
    \/ noteName \in linkedTo
    \/ (noteName \o <<".">> \o MdExt) \in linkedTo
    \/ pathLower \in linkedTo

isLinkedTo(path, linkedTo) ==
    nameLinkedTo(toLowerCase(stripMd(lastSegment(path))), toLowerCase(path), linkedTo)

\* if (!includeUnlinked || !hasLinks)
orphanKept(includeUnlinked, hasLinks) == ~includeUnlinked \/ ~hasLinks

\* the entry pushed to orphans for the note at path, if any
orphanEntry(path, hasLinks, linkedTo, includeUnlinked) ==
    IF ~isLinkedTo(path, linkedTo) /\ orphanKept(includeUnlinked, hasLinks)
    THEN <<[path |-> path, hasOutgoingLinks |-> hasLinks]>>
    ELSE <<>>

orphansOf(mdFiles, hasOutgoingLinks, linkedTo, includeUnlinked) ==
    Flatten([i \in 1..Len(mdFiles) |->
                orphanEntry(mdFiles[i].path, mdFiles[i].path \in hasOutgoingLinks,
                            linkedTo, includeUnlinked)],
            1, Len(mdFiles))

\* the targets of the links of the scanned notes
linkedToOf(links) ==
    UNION {UNION {linkedForms(links[i][j]) : j \in 1..Len(links[i])}
           : i \in 1..Len(links)}

hasOutgoingLinksOf(scanned, links) ==
    {scanned[i].path : i \in {j \in 1..Len(scanned) : Len(links[j]) > 0}}

orphanResult(folder, includeUnlinked, mdFiles, orphans) ==
    [tool |-> "find_orphan_notes",
     args |-> [folder |-> folder, includeUnlinked |-> includeUnlinked],
     isError |-> FALSE, folder |-> folderLabel(folder),
     totalNotes |-> Len(mdFiles),
     orphanCount |-> Len(orphans),
     orphans |-> SubSeq(orphans, 1, Min({Len(orphans), OrphanReportCap})),
     truncated |-> Len(orphans) > OrphanReportCap]

orphansOfLinks(folder, includeUnlinked, mdFiles, scanned, links) ==
    orphanResult(folder, includeUnlinked, mdFiles,
                 orphansOf(mdFiles, hasOutgoingLinksOf(scanned, links),
                           linkedToOf(links), includeUnlinked))

\* the result of the catch block of the handler
orphanError(folder, includeUnlinked) ==
    [tool |-> "find_orphan_notes",
     args |-> [folder |-> folder, includeUnlinked |-> includeUnlinked],
     isError |-> TRUE]

orphansOfScan(folder, includeUnlinked, mdFiles, scanned) ==
    IF scanAborts(scanned) THEN orphanError(folder, includeUnlinked)
    ELSE orphansOfLinks(folder, includeUnlinked, mdFiles, scanned,
                        [i \in 1..Len(scanned) |-> linksOfFile(scanned[i].path)])

orphansOfNotes(folder, includeUnlinked, mdFiles) ==
    orphansOfScan(folder, includeUnlinked, mdFiles, orphanScanned(mdFiles))

orphansOfListing(folder, includeUnlinked, listing) ==
    IF ~listing.ok THEN orphanError(folder, includeUnlinked)
    ELSE orphansOfNotes(folder, includeUnlinked, mdFilesOf(listing.items))

find_orphan_notes(folder, includeUnlinked) ==
    orphansOfListing(folder, includeUnlinked, listAllFiles(folder, ListDepth))

----------------------------------------------------------------------------
(* get_link_graph_data *)

GraphDefaultMax == 100

\* .slice(0, maxNotes)
graphNotes(mdFiles, maxNotes) == SubSeq(mdFiles, 1, Min({Len(mdFiles), maxNotes}))

\* nodes.push({ id: noteName, label })
graphNodes(mdFiles) ==
    [i \in 1..Len(mdFiles) |->
        [id |-> stripMd(mdFiles[i].path),
         label |-> stripMd(lastSegment(mdFiles[i].path))]]

\* noteNames.add(noteName.toLowerCase())
noteNamesOf(mdFiles) ==
    {toLowerCase(stripMd(mdFiles[i].path)) : i \in 1..Len(mdFiles)}

\* the edge pushed for a link whose target without heading is target
edgeOfTarget(sourceName, target, noteNames) ==
    IF toLowerCase(target) \in noteNames
    THEN <<[source |-> sourceName, target |-> target]>>
    ELSE <<>>

edgeOfLink(sourceName, link, noteNames) ==
    IF link.isEmbed THEN <<>>
    ELSE edgeOfTarget(sourceName, stripHeading(link.target), noteNames)

edgesOfLinks(sourceName, links, noteNames) ==
    Flatten([j \in 1..Len(links) |-> edgeOfLink(sourceName, links[j], noteNames)],
            1, Len(links))

edgesOfFile(path, noteNames) ==
    edgesOfLinks(stripMd(path), linksOfFile(path), noteNames)

graphEdges(mdFiles, noteNames) ==
    Flatten([i \in 1..Len(mdFiles) |-> edgesOfFile(mdFiles[i].path, noteNames)],
            1, Len(mdFiles))

graphResult(folder, maxNotes, nodes, edges) ==
    [tool |-> "get_link_graph_data",
     args |-> [folder |-> folder, maxNotes |-> maxNotes],
     isError |-> FALSE, folder |-> folderLabel(folder),
     nodeCount |-> Len(nodes), edgeCount |-> Len(edges),
     nodes |-> nodes, edges |-> edges]

\* the result of the catch block of the handler
graphError(folder, maxNotes) ==
    [tool |-> "get_link_graph_data",
     args |-> [folder |-> folder, maxNotes |-> maxNotes], isError |-> TRUE]

graphOfNotes(folder, maxNotes, mdFiles) ==
    IF scanAborts(mdFiles) THEN graphError(folder, maxNotes)
    ELSE graphResult(folder, maxNotes, graphNodes(mdFiles),
                     graphEdges(mdFiles, noteNamesOf(mdFiles)))

graphOfListing(folder, maxNotes, listing) ==
    IF ~listing.ok THEN graphError(folder, maxNotes)
    ELSE graphOfNotes(folder, maxNotes,
                      graphNotes(mdFilesOf(listing.items), maxNotes))

get_link_graph_data(folder, maxNotes) ==
    graphOfListing(folder, maxNotes, listAllFiles(folder, ListDepth))

----------------------------------------------------------------------------
(* Inputs of the codec *)

MaxKeys == 2
MaxOps == 2

\* "title", "tags", "publish", "note", "count"
KTitle == <<"t", "i", "t", "l", "e">>
KPublish == <<"p", "u", "b", "l", "i", "s", "h">>
KNote == <<"n", "o", "t", "e">>
KCount == <<"c", "o", "u", "n", "t">>

\* the strings a frontmatter value is drawn from
SampleStrings ==
    { <<"T">>,      \* T
      <<"p", "l", "a", "i", "n">>,      \* plain
      <<"a", ":", " ", "b">>,      \* a: b
      <<"#", "x">>,      \* #x
      <<"4", "2">>,      \* 42
      <<"t", "r", "u", "e">>,      \* true
      <<"n", "u", "l", "l">>,      \* null
      <<"1", ".", "5">>,      \* 1.5
      <<>>,      \* (empty)
      <<" ", "a">>,      \* ' a' with a leading space
      <<"a", "\"", "b", ":">>,      \* a"b:
      <<"'", "q", "'">>,      \* 'q'
      <<"[", "a", "]">> }     \* [a]

SampleScalars ==
    {StrV(x) : x \in SampleStrings}
    \cup {NumV(0, 0), NumV(42, 0), NumV(0 - 7, 0), NumV(15, 1), NumV(0 - 5, 3)}
    \cup {BoolV(TRUE), BoolV(FALSE), NullV}

SampleArrays ==
    { ArrV(<<>>),
      ArrV(<<StrV(<<"a">>), StrV(<<"b">>)>>),
      ArrV(<<StrV(<<"a">>), NumV(1, 0), BoolV(TRUE), NullV>>),
      ArrV(<<StrV(<<"4", "2">>)>>) }

SampleValues == SampleScalars \cup SampleArrays

SampleKeys == {KTitle, KeyTags}

\* every frontmatter object of at most MaxKeys distinct keys
Objects(n) ==
    UNION {
        {f \in [1..m -> [k : SampleKeys, v : SampleValues]] :
            \A i, j \in 1..m : i # j => f[i].k # f[j].k}
        : m \in 0..n }

SampleBodies ==
    { <<>>,
      <<"H", "e", "l", "l", "o", "\n">>,     \* Hello\n
      <<"-", "-", "-", "\n", "x", ":", " ", "1", "\n", "-", "-", "-", "\n", "r", "e", "s", "t">> }    \* ---\nx: 1\n---\nrest

\* the note contents the write helpers start from
SampleContents ==
    { <<>>,
      <<"B", "o", "d", "y">>,     \* Body
      <<"-", "-", "-", "\n", "t", "i", "t", "l", "e", ":", " ", "T", "\n", "t", "a", "g", "s", ":", "\n", " ", " ", "-", " ", "a", "\n", " ", " ", "-", " ", "B", "\n", "-", "-", "-", "\n", "B", "o", "d", "y", "\n">>,     \* title T, tags a and B, then Body\n
      <<"-", "-", "-", "\n", "t", "a", "g", "s", ":", "\n", " ", " ", "-", " ", "2", "0", "2", "4", "\n", "-", "-", "-", "\n", "B", "o", "d", "y">>,     \* tags 2024, then Body
      <<"-", "-", "-", "\n", "\n", "-", "-", "-", "\n", "-", "-", "-", "\n", "x", ":", " ", "1", "\n", "-", "-", "-", "\n", "r", "e", "s", "t">>,     \* an empty block, then a body that starts with a block
      <<"-", "-", "-", "\r", "\n", "t", "i", "t", "l", "e", ":", " ", "T", "\r", "\n", "-", "-", "-", "\r", "\n", "B", "o", "d", "y">>,     \* title T with \r\n line ends
      <<"-", "-", "-", "\n", "t", "a", "g", "s", ":", " ", "a", "\n", "-", "-", "-", "\n", "#", "i", "n", "l", "i", "n", "e">>,    \* tags: a (no sequence), then #inline
      <<"-", "-", "-", "\n", "t", "i", "t", "l", "e", ":", " ", "\"", "4", "2", "\"", "\n", "-", "-", "-", "\n", "B", "o", "d", "y">> }    \* title: "42" (a quoted string), then Body

SampleTagLists ==
    { <<<<"x">>>>,            \* x
      <<<<"#", "x">>>>,            \* #x
      <<<<"2", "0", "2", "4">>>>,            \* 2024
      <<<<"a">>, <<"#", "b">>>>,        \* a, #b
      <<<<"b">>>>,            \* b, to remove B
      <<<<"x">>, <<"x">>>> }       \* x, x

SampleUpdates ==
    { <<>>,
      <<[k |-> KTitle, v |-> StrV(<<"N", "e", "w">>)]>>,       \* New
      <<[k |-> KNote, v |-> StrV(<<"a", "\n", "-", "-", "-">>)]>>,        \* a\n---
      <<[k |-> KCount, v |-> NumV(42, 0)]>>,
      <<[k |-> KeyTags, v |-> StrV(<<"s", "o", "l", "o">>)]>> }     \* solo

SampleAliasLists ==
    { <<<<"A", "l">>>>,            \* Al
      <<<<"a", ":", " ", "b">>>> }           \* a: b

----------------------------------------------------------------------------
(* Inputs of the link tools: the vaults                                     *)
(*   A.md, n1.md .. np.md, B.md, Img.png, sub/C.md, sub/deep/D.md           *)
(* where the p filler notes link to each other in a ring                    *)

Overshoot == 1

PathA == <<"A", ".", "m", "d">>
PathB == <<"B", ".", "m", "d">>
PathImg == <<"I", "m", "g", ".", "p", "n", "g">>
PathC == <<"s", "u", "b", "/", "C", ".", "m", "d">>
PathD == <<"s", "u", "b", "/", "d", "e", "e", "p", "/", "D", ".", "m", "d">>
DirSub == <<"s", "u", "b">>
DirDeep == <<"s", "u", "b", "/", "d", "e", "e", "p">>
DirNope == <<"n", "o", "p", "e">>

Readable(text) == [ok |-> TRUE, text |-> text]
Unreadable == [ok |-> FALSE, text |-> <<>>]

SampleA ==
    { Readable(<<>>),
      Readable(<<"[", "[", "B", "]", "]">>),      \* [[B]]
      Readable(<<"s", "e", "e", " ", "[", "[", "G", "o", "n", "e", "]", "]", " ", "a", "n", "d", " ", "!", "[", "[", "I", "m", "g", ".", "p", "n", "g", "]", "]">>),      \* see [[Gone]] and ![[Img.png]]
      Readable(<<"[", "[", "A", "]", "]">>),      \* [[A]]
      Readable(<<"[", "[", "s", "u", "b", "/", "C", "]", "]", " ", "[", "[", "d", "e", "e", "p", "/", "D", "]", "]">>),      \* [[sub/C]] [[deep/D]]
      Readable(<<"[", "[", "b", ".", "m", "d", "#", "H", "e", "a", "d", "|", "s", "h", "o", "w", "n", "]", "]">>),      \* [[b.md#Head|shown]]
      Unreadable }

SampleB ==
    { Readable(<<>>),
      Readable(<<"[", "[", "A", "]", "]">>),      \* [[A]]
      Readable(<<"[", "[", "G", "o", "n", "e", "#", "h", "|", "x", "]", "]">>),      \* [[Gone#h|x]]
      Readable(<<"[", "[", "s", "u", "b", "/", "C", ".", "m", "d", "]", "]", "[", "[", "D", "]", "]">>) }     \* [[sub/C.md]][[D]]

\* the contents of A.md and B.md in the vaults with filler notes
BigA == {Readable(<<>>), Readable(<<"[", "[", "B", "]", "]">>)}
BigB == {Readable(<<"[", "[", "A", "]", "]">>),
         Readable(<<"[", "[", "G", "o", "n", "e", "#", "h", "|", "x", "]", "]">>)}

SampleC ==
    { Readable(<<>>),
      Readable(<<"[", "[", "A", "]", "]">>),      \* [[A]]
      Readable(<<"[", "[", "D", "]", "]">>) }     \* [[D]]

SampleD ==
    { Readable(<<>>),
      Readable(<<"[", "[", "C", "]", "]">>),      \* [[C]]
      Readable(<<"[", "[", "a", "]", "]">>) }     \* [[a]]

\* the name of filler note i, without extension
PadName(i) == <<"n">> \o NatToStr(i)
PadPath(i) == PadName(i) \o <<".">> \o MdExt
\* filler note i links to the next one, the last to the first
PadText(i, p) == <<"[", "[">> \o PadName((i % p) + 1) \o <<"]", "]">>

\* numbers of filler notes that put B.md just before and just after each cap
BigPads ==
    {cap - 2 + k : cap \in {BrokenScanCap, OrphanScanCap}, k \in 0..Overshoot}

Vault(a, b, c, d, p) ==
    LET root == <<<<"A", ".", "m", "d">>>> \o [i \in 1..p |-> PadPath(i)]
                \o <<<<"B", ".", "m", "d">>, <<"I", "m", "g", ".", "p", "n", "g">>, <<"s", "u", "b", "/">>>>
    IN  [dirs |-> (<<>> :> root)
                  @@ (DirSub :> <<<<"C", ".", "m", "d">>, <<"d", "e", "e", "p", "/">>>>)
                  @@ (DirDeep :> <<<<"D", ".", "m", "d">>>>),
         notes |-> [x \in {PadPath(i) : i \in 1..p} |->
                        Readable(PadText(DigitsToNat(SubSeq(x, 2, Len(x) - 3)), p))]
                   @@ (PathA :> a) @@ (PathB :> b) @@ (PathC :> c) @@ (PathD :> d)
                   @@ (PathImg :> Readable(<<>>))]

SampleVaults ==
    {Vault(a, b, c, d, 0) : a \in SampleA, b \in SampleB, c \in SampleC, d \in SampleD}
    \cup {Vault(a, b, Readable(<<>>), Readable(<<>>), p) :
            a \in BigA, b \in BigB, p \in BigPads}

SampleFolders == {<<>>, DirSub, DirNope}

\* maxNotes: one node, a few nodes, the default
SampleMaxNotes == {1, 3, GraphDefaultMax}

----------------------------------------------------------------------------
(* The values a variable holds in a specification that does not use it *)

NotParsed == [done |-> FALSE, frontmatter |-> <<>>, body |-> <<>>, raw |-> <<>>]
NoOp == [op |-> "none", arg |-> <<>>, before |-> <<>>, threw |-> FALSE]
NoReport == [tool |-> "none"]
NoOutput == [fn |-> "none"]

RoundTripIdle == rtFm = <<>> /\ rtBody = <<>> /\ rtParsed = NotParsed
CodecIdle == content = <<>> /\ content0 = <<>> /\ lastOp = NoOp /\ steps = 0
LinksIdle == vaultDirs = <<>> /\ vaultNotes = <<>> /\ report = NoReport
FunctionsIdle == input = <<>> /\ output = NoOutput
CallsIdle == file = <<>> /\ calls = <<>>

roundTripVars == <<rtFm, rtBody, rtParsed>>
codecVars == <<content, content0, lastOp, steps>>
linksVars == <<vaultDirs, vaultNotes, report>>
functionVars == <<input, output>>
callVars == <<file, calls>>

----------------------------------------------------------------------------
(* Specification SpecRoundTrip: parseFrontmatter(stringifyFrontmatter(fm) + body) *)

InitRoundTrip ==
    /\ rtFm \in Objects(MaxKeys)
    /\ rtBody \in SampleBodies
    /\ rtParsed = NotParsed
    /\ CodecIdle
    /\ LinksIdle
    /\ FunctionsIdle
    /\ CallsIdle

RoundTrip ==
    /\ ~rtParsed.done
    /\ rtParsed' = [done |-> TRUE] @@
                   parseFrontmatter(stringifyFrontmatter(rtFm) \o rtBody)
    /\ UNCHANGED <<rtFm, rtBody, codecVars, linksVars, functionVars, callVars>>

NextRoundTrip == RoundTrip

SpecRoundTrip == InitRoundTrip /\ [][NextRoundTrip]_vars

----------------------------------------------------------------------------
(* Specification Spec: a sequence of write helpers applied to a note *)

Init ==
    /\ content0 \in SampleContents
    /\ content = content0
    /\ lastOp = NoOp
    /\ steps = 0
    /\ RoundTripIdle
    /\ CallsIdle
    /\ LinksIdle
    /\ FunctionsIdle

Applied(op, arg, out) ==
    /\ content' = out
    /\ lastOp' = [op |-> op, arg |-> arg, before |-> content, threw |-> FALSE]
    /\ steps' = steps + 1
    /\ UNCHANGED <<content0, roundTripVars, linksVars, functionVars, callVars>>

UpdateFrontmatter ==
    /\ steps < MaxOps
    /\ \E u \in SampleUpdates :
          Applied("updateFrontmatter", u, updateFrontmatter(content, u))

AddTags ==
    /\ steps < MaxOps
    /\ \E T \in SampleTagLists : Applied("addTags", T, addTags(content, T))

\* a TypeError leaves no result: the content stays as it was
RemoveTags ==
    /\ steps < MaxOps
    /\ \E T \in SampleTagLists :
          IF removeTagsThrows(content, T)
          THEN /\ lastOp' = [op |-> "removeTags", arg |-> T,
                             before |-> content, threw |-> TRUE]
               /\ steps' = steps + 1
               /\ UNCHANGED <<content, content0, roundTripVars, linksVars, functionVars, callVars>>
          ELSE Applied("removeTags", T, removeTags(content, T))

AddAliases ==
    /\ steps < MaxOps
    /\ \E A \in SampleAliasLists : Applied("addAliases", A, addAliases(content, A))

Next == UpdateFrontmatter \/ AddTags \/ RemoveTags \/ AddAliases

Spec == Init /\ [][Next]_vars

----------------------------------------------------------------------------
(* Claims about the codec *)

\* the key/value pairs of a frontmatter object, key order aside
Pairs(o) == {o[i] : i \in 1..Len(o)}

\* C1: for every frontmatter object of strings, numbers, booleans, null and
\* sequences of those, and every body, parsing the serialized block followed
\* by the body gives back a value-equal frontmatter and the identical body.
RoundTripLaw ==
    rtParsed.done =>
        /\ Pairs(rtParsed.frontmatter) = Pairs(rtFm)
        /\ rtParsed.body = rtBody

\* C2: after any sequence of updateFrontmatter, addTags, removeTags and
\* addAliases, the body parsed from the result is the body parsed from the
\* content the sequence started from.
BodyNeverCorrupted ==
    parseFrontmatter(content).body = parseFrontmatter(content0).body

\* the frontmatter tags of a content, as parsed
TagsOf(c) ==
    LET p == parseFrontmatter(c)
    IN  IF IsArrayField(p.frontmatter, KeyTags)
        THEN Get(p.frontmatter, KeyTags).a ELSE <<>>

NoDuplicate(seq) == \A i, j \in 1..Len(seq) : i # j => seq[i] # seq[j]

\* C3: adding the same tag list a second time leaves the frontmatter tags as
\* they were after the first time, and no tag occurs twice in them.
AddTagsIdempotent ==
    (lastOp.op = "addTags") =>
        /\ TagsOf(addTags(content, lastOp.arg)) = TagsOf(content)
        /\ NoDuplicate(TagsOf(content))

----------------------------------------------------------------------------
(* Specification SpecLinks: the link analysis tools called on a vault *)

InitLinks ==
    /\ \E v \in SampleVaults : vaultDirs = v.dirs /\ vaultNotes = v.notes
    /\ report = NoReport
    /\ RoundTripIdle
    /\ CallsIdle
    /\ CodecIdle
    /\ FunctionsIdle

FindBrokenLinks ==
    /\ \E folder \in SampleFolders : report' = find_broken_links(folder)
    /\ UNCHANGED <<vaultDirs, vaultNotes, roundTripVars, codecVars, functionVars, callVars>>

FindOrphanNotes ==
    /\ \E folder \in SampleFolders, includeUnlinked \in BOOLEAN :
          report' = find_orphan_notes(folder, includeUnlinked)
    /\ UNCHANGED <<vaultDirs, vaultNotes, roundTripVars, codecVars, functionVars, callVars>>

GetLinkGraphData ==
    /\ \E folder \in SampleFolders, maxNotes \in SampleMaxNotes :
          report' = get_link_graph_data(folder, maxNotes)
    /\ UNCHANGED <<vaultDirs, vaultNotes, roundTripVars, codecVars, functionVars, callVars>>

\* what the three tools return for the vault as it is
AllReports ==
    [broken |-> [f \in SampleFolders |-> find_broken_links(f)],
     orphans |-> [f \in SampleFolders |->
                    [u \in BOOLEAN |-> find_orphan_notes(f, u)]],
     graph |-> [f \in SampleFolders |->
                  [n \in SampleMaxNotes |-> get_link_graph_data(f, n)]]]

\* the vault changes between two calls: a note that could not be read is
\* readable again and empty; what the tools returned before is kept
ReadRecovers ==
    /\ \E p \in DOMAIN vaultNotes :
          /\ ~vaultNotes[p].ok
          /\ vaultNotes' = [vaultNotes EXCEPT ![p] = Readable(<<>>)]
    /\ report' = [tool |-> "read_recovers", before |-> AllReports]
    /\ UNCHANGED <<vaultDirs, roundTripVars, codecVars, functionVars, callVars>>

NextLinks ==
    FindBrokenLinks \/ FindOrphanNotes \/ GetLinkGraphData \/ ReadRecovers

SpecLinks == InitLinks /\ [][NextLinks]_vars

----------------------------------------------------------------------------
(* Claims about the link tools.  What a note links to and what names a     *)
(* note are read from the vault itself, not from what the tools computed.  *)

NotePaths == {p \in DOMAIN vaultNotes : endsWith(p, <<".">> \o MdExt)}

\* the target of a link or of a reported entry: #heading cut off, lowercased
TargetOf(link) ==
    toLowerCase(SubSeq(link.target, 1, RunEnd(link.target, 1, {"#"}) - 1))

\* the internal links of the note at path p; none for a note that cannot be read
OutLinks(p) ==
    IF vaultNotes[p].ok THEN extractInternalLinks(vaultNotes[p].text) ELSE <<>>

OutTargets(p) == {TargetOf(OutLinks(p)[i]) : i \in 1..Len(OutLinks(p))}

\* the link targets that name the file at path p: its path and its bare
\* name, each with and without .md
NamesOf(p) ==
    {toLowerCase(p), toLowerCase(stripMd(p)),
     toLowerCase(lastSegment(p)), toLowerCase(stripMd(lastSegment(p)))}

LinksTo(q, p) == OutTargets(q) \cap NamesOf(p) # {}

LinkedByOther(p) == \E q \in NotePaths \ {p} : LinksTo(q, p)

OrphanReport == report.tool = "find_orphan_notes" /\ ~report.isError

ReportedOrphans == {report.orphans[i].path : i \in 1..Len(report.orphans)}

\* C4: with includeUnlinked = false, every note find_orphan_notes reports has
\* at least one outgoing internal link: a never-targeted note with zero
\* outgoing links is excluded from the result.
DefaultExcludesUnlinked ==
    (OrphanReport /\ ~report.args.includeUnlinked) =>
        \A p \in ReportedOrphans : OutLinks(p) # <<>>

\* what find_orphan_notes reports for the same vault and folder with
\* includeUnlinked = true
WithUnlinked == find_orphan_notes(report.args.folder, TRUE)

PathsOf(orphans) == {orphans[i].path : i \in 1..Len(orphans)}

\* C5: for a vault with fewer than 100 orphans, every note reported with
\* includeUnlinked = false is also reported with includeUnlinked = true, and
\* the notes reported only with true are notes that link to nothing.
IncludeUnlinkedOnlyAdds ==
    (/\ OrphanReport
     /\ ~report.args.includeUnlinked
     /\ report.orphanCount < OrphanReportCap
     /\ WithUnlinked.orphanCount < OrphanReportCap) =>
        /\ ReportedOrphans \subseteq PathsOf(WithUnlinked.orphans)
        /\ \A p \in PathsOf(WithUnlinked.orphans) \ ReportedOrphans :
              OutLinks(p) = <<>>

\* C6: called on the whole vault, find_orphan_notes reports no note that an
\* internal link of another readable note targets, for either value of
\* includeUnlinked and for any number of notes.
LinkedNoteNeverOrphan ==
    (OrphanReport /\ report.args.folder = <<>>) =>
        \A p \in ReportedOrphans : ~LinkedByOther(p)

\* C7: called on the whole vault with the setting that lets notes with
\* outgoing links through, find_orphan_notes reports every note that links
\* to itself and that no other note links to.
SelfLinkedIsOrphan ==
    (/\ OrphanReport
     /\ report.args.folder = <<>>
     /\ ~report.args.includeUnlinked
     /\ ~report.truncated) =>
        \A p \in NotePaths :
            (LinksTo(p, p) /\ ~LinkedByOther(p)) => p \in ReportedOrphans

BrokenReport == report.tool = "find_broken_links" /\ ~report.isError

\* the markdown notes the scan enumerates, in enumeration order
Enumerated == mdFilesOf(listAllFiles(report.args.folder, ListDepth).items)

PathsFrom(notes, from, to) == {notes[i].path : i \in from..to}

AllPaths(notes) == PathsFrom(notes, 1, Len(notes))

\* the notes within the scan cap, and those beyond it
WithinCap(notes) == PathsFrom(notes, 1, Min({Len(notes), BrokenScanCap}))
BeyondCap(notes) == PathsFrom(notes, BrokenScanCap + 1, Len(notes))

\* the existence index: every note's full path, full path minus extension
\* and bare filename minus extension, lowercased
IndexOf(paths) ==
    UNION {{toLowerCase(p), toLowerCase(stripMd(p)),
            toLowerCase(stripMd(lastSegment(p)))} : p \in paths}

\* the number of entries {source, target} in the report
Reported(source, target) ==
    Cardinality({i \in 1..Len(report.brokenLinks) :
                    report.brokenLinks[i] = [source |-> source, target |-> target]})

\* the number of the links to target that Broken holds of
Occurring(links, target, Broken(_)) ==
    Cardinality({j \in 1..Len(links) :
                    links[j].target = target /\ Broken(TargetOf(links[j]))})

\* the report holds one entry per link occurrence, in the notes within the
\* cap, whose target Broken holds of, and nothing else
ReportsExactly(within, Broken(_)) ==
    /\ \A i \in 1..Len(report.brokenLinks) :
          /\ report.brokenLinks[i].source \in within
          /\ Reported(report.brokenLinks[i].source, report.brokenLinks[i].target)
                = Occurring(OutLinks(report.brokenLinks[i].source),
                            report.brokenLinks[i].target, Broken)
    /\ \A s \in within : \A j \in 1..Len(OutLinks(s)) :
          Reported(s, OutLinks(s)[j].target)
             = Occurring(OutLinks(s), OutLinks(s)[j].target, Broken)

\* a target resolves when it, or it followed by .md, is in the index, or
\* when a note's path ends with "/" and the target, with or without .md
Unresolved(target, index, paths) ==
    /\ target \notin index
    /\ (target \o <<".">> \o MdExt) \notin index
    /\ \A p \in paths :
          /\ ~endsWith(toLowerCase(p), <<"/">> \o target \o <<".">> \o MdExt)
          /\ ~endsWith(toLowerCase(p), <<"/">> \o target)

ReportsUnindexed(within, index) ==
    ReportsExactly(within, LAMBDA t : t \notin index)

ReportsUnresolved(within, index, paths) ==
    ReportsExactly(within, LAMBDA t : Unresolved(t, index, paths))

ReportsUnindexedOf(notes) ==
    ReportsUnindexed(WithinCap(notes), IndexOf(AllPaths(notes)))

ReportsUnresolvedOf(notes) ==
    ReportsUnresolved(WithinCap(notes), IndexOf(AllPaths(notes)), AllPaths(notes))

\* C8 (as stated): find_broken_links reports one entry per link occurrence
\* whose heading-stripped, lowercased target is not in the existence index of
\* the three forms of every note path, and nothing else.
BrokenExactlyUnindexed == BrokenReport => ReportsUnindexedOf(Enumerated)

\* C8 (amended): find_broken_links reports one entry per link occurrence, in
\* the notes within the scan cap, whose heading-stripped, lowercased target
\* is not in the existence index, is not in it with .md appended, and is no
\* tail after a "/" of a note path with or without .md; it reports nothing
\* else.
BrokenExactlyUnresolved == BrokenReport => ReportsUnresolvedOf(Enumerated)

\* a whole-vault report where [[deep/D]] resolves by the tail of sub/deep/D.md
\* and the one link to a missing note is reported
BrokenTailWitness ==
    /\ BrokenReport
    /\ report.args.folder = <<>>
    /\ \E i \in 1..Len(OutLinks(PathA)) :
          OutLinks(PathA)[i].target = <<"d", "e", "e", "p", "/", "D">>
    /\ report.brokenLinks =
          <<[source |-> PathB, target |-> <<"G", "o", "n", "e", "#", "h">>]>>

\* C9: find_broken_links reports no link whose target names a file of the
\* vault, whether the scan is restricted to a folder or not and whether the
\* file is a markdown note or not.
ExistingTargetNeverBroken ==
    BrokenReport =>
        \A i \in 1..Len(report.brokenLinks) :
            \A f \in DOMAIN vaultNotes :
                TargetOf(report.brokenLinks[i]) \notin NamesOf(f)

CapRespected(notes, within, beyondIndex) ==
    /\ report.filesChecked = Min({Len(notes), BrokenScanCap})
    /\ \A i \in 1..Len(report.brokenLinks) :
          /\ report.brokenLinks[i].source \in within
          /\ TargetOf(report.brokenLinks[i]) \notin beyondIndex

CapRespectedOf(notes) ==
    CapRespected(notes, WithinCap(notes), IndexOf(BeyondCap(notes)))

\* C10: find_broken_links reports no entry whose source is beyond the 200th
\* enumerated note, filesChecked is the smaller of the number of notes and
\* 200, and no reported link targets a note beyond the 200th.
ScanCapRespected == BrokenReport => CapRespectedOf(Enumerated)

\* a whole-vault report of more than 200 notes where A.md links to B.md, the
\* 201st note, whose own link to a missing note goes unread
ScanCapWitness ==
    /\ BrokenReport
    /\ report.args.folder = <<>>
    /\ report.filesChecked = BrokenScanCap
    /\ report.brokenLinks = <<>>
    /\ LinksTo(PathA, PathB)
    /\ OutTargets(PathB) = {<<"g", "o", "n", "e">>}
    /\ PathB \in BeyondCap(Enumerated)

LinkTools == {"find_broken_links", "find_orphan_notes", "get_link_graph_data"}

EnumerationFails == ~listAllFiles(report.args.folder, ListDepth).ok

ErrorOnlyFromEnumeration ==
    report.tool \in LinkTools => (report.isError <=> EnumerationFails)

\* C11: a report of find_broken_links, find_orphan_notes or
\* get_link_graph_data is an error result exactly when the enumeration of the
\* vault files fails, and a note that cannot be read changes no report: every
\* report is what it is when that note is readable and empty.
ReadFailureSkipped ==
    /\ ErrorOnlyFromEnumeration
    /\ report.tool = "read_recovers" => report.before = AllReports

\* find_broken_links succeeded on the whole vault although A.md cannot be
\* read, and reported the broken link of another note
ReadFailureWitness ==
    /\ report.tool = "find_broken_links"
    /\ report.args.folder = <<>>
    /\ ~vaultNotes[PathA].ok
    /\ ~report.isError
    /\ report.brokenLinks # <<>>

GraphReport == report.tool = "get_link_graph_data" /\ ~report.isError

NodeIds(nodes) == {nodes[i].id : i \in 1..Len(nodes)}

\* the ids of the first n enumerated notes, in enumeration order
FirstNotes(notes, n) ==
    [i \in 1..Min({Len(notes), n}) |-> stripMd(notes[i].path)]

NodesAreFirstNotes(nodes, notes, n) ==
    [i \in 1..Len(nodes) |-> nodes[i].id] = FirstNotes(notes, n)

EdgesWithin(edges, ids) ==
    \A i \in 1..Len(edges) : edges[i].source \in ids /\ edges[i].target \in ids

\* C12: in a result of get_link_graph_data the nodes are the first maxNotes
\* enumerated notes in order, nodeCount and edgeCount count them, and the
\* source and the target of every edge are ids of returned nodes.
GraphEdgesWithinNodes ==
    GraphReport =>
        /\ NodesAreFirstNotes(report.nodes, Enumerated, report.args.maxNotes)
        /\ report.nodeCount = Len(report.nodes)
        /\ report.edgeCount = Len(report.edges)
        /\ EdgesWithin(report.edges, NodeIds(report.nodes))

----------------------------------------------------------------------------
(* Specification SpecFunctions: one pure function of the codec or of the   *)
(* extractor applied to one text                                            *)

\* the texts the functions are applied to
SampleTagTexts ==
    { <<"f", "o", "o", "#", "b", "a", "r">>,      \* foo#bar
      <<"#", "x", " ", "y">>,      \* #x y
      <<"a", " ", "#", "b", "-", "c", "/", "d", " ", "#", "b", "-", "c", "/", "d">>,      \* a #b-c/d #b-c/d
      <<"#", "1", "a", " ", "#", "#", "t", "\n", "#", "u", "_", "1", ".">>,      \* #1a ##t\n#u_1.
      <<"-", "-", "-", "\n", "t", "a", "g", "s", ":", "\n", " ", " ", "-", " ", "a", "\n", " ", " ", "-", " ", "a", "\n", "-", "-", "-", "\n", "s", "e", "e", " ", "#", "a", " ", "(", "#", "b", ")">>,      \* tags a, a, then: see #a (#b)
      <<"-", "-", "-", "\n", "t", "a", "g", "s", ":", " ", "[", "x", ",", " ", "4", "2", "]", "\n", "-", "-", "-", "\n", "#", "x">> }     \* tags: [x, 42], then #x

\* a wikilink [[target]] or [[target|display]] and a markdown link
\* [display](url), each between two pieces of plain text
SampleWikilinks ==
    [pre : {<<>>, <<"s", "e", "e", " ">>}, target : {<<"N", "o", "t", "e">>, <<"d", "i", "r", "/", "N", "o", "t", "e">>},
     display : {<<>>, <<"s", "h", "o", "w", "n">>}, post : {<<>>, <<" ", "n", "o", "w">>}]

SampleMarkdownLinks ==
    [pre : {<<>>, <<"s", "e", "e", " ">>}, display : {<<"g", "o">>}, url : {<<"h", "t", "t", "p", ":", "/", "/", "x">>},
     post : {<<>>, <<" ", "n", "o", "w">>}]

WikilinkSource(w) ==
    w.pre \o <<"[", "[">> \o w.target
    \o (IF w.display = <<>> THEN <<>> ELSE <<"|">> \o w.display)
    \o <<"]", "]">> \o w.post

MarkdownLinkSource(l) ==
    l.pre \o <<"[">> \o l.display \o <<"]", "(">> \o l.url \o <<")">> \o l.post

SampleLinkTexts ==
    {WikilinkSource(w) : w \in SampleWikilinks}
    \cup {MarkdownLinkSource(l) : l \in SampleMarkdownLinks}

SampleSummaryTexts ==
    {
      <<"a", " ", "b", "c", "d", "e", "f", "g", "h", "i", "j">>,      \* a bcdefghij
      <<"a", "b", "c", "d", " ", "e", "f", "g", "h", "i", "j">>,      \* abcd efghij
      <<"a", "b", "c", "d", "e", "f", "g", "h", " ", "i", "j", "k", "l">>,      \* abcdefgh ijkl
      <<"a", "b", "c">>,      \* abc
      <<"w", "a", "i", "t", ".", ".", ".">>,      \* wait...
      <<" ", " ", "a", " ", "\n", " ", "b", " ", " ">>,      \*   a \n b  
      <<"-", "-", "-", "\n", "t", "i", "t", "l", "e", ":", " ", "T", "\n", "-", "-", "-", "\n", "B", "o", "d", "y", " ", "h", "e", "r", "e">>,      \* ---\ntitle: T\n---\nBody here
      <<"#", " ", "H", "e", "a", "d", "\n", "T", "e", "x", "t", " ", "#", "x">>,      \* # Head\nText #x
      <<"#", " ", "\n", "n", "e", "x", "t", "\n", "l", "i", "n", "e">>,      \* # \nnext\nline
      <<"a", " ", Grave, "c", "o", "d", "e", Grave, " ", "b">>,      \* a (backtick)code(backtick) b
      <<"a", " ", Grave, Grave, Grave, "x", "\n", "y", Grave, Grave, Grave, " ", "b">>,      \* a (backtick)(backtick)(backtick)x\ny(backtick)(backtick)(backtick) b
      <<"!", "[", "a", "l", "t", "]", "(", "u", ".", "p", "n", "g", ")", " ", "a", "n", "d", " ", "!", "[", "]", "(", "v", ".", "p", "n", "g", ")", " ", "p", "i", "c">>      \* ![alt](u.png) and ![](v.png) pic
    }

SampleLengths == {0, 3, 5, 10, SummaryDefaultMax}

\* texts with and without a frontmatter block
SampleBlockTexts ==
    {
      <<"-", "-", "-", "\n", "t", "i", "t", "l", "e", ":", " ", "T", "\n", "-", "-", "-", "\n", "B", "o", "d", "y">>,      \* ---\ntitle: T\n---\nBody
      <<"-", "-", "-", "\n", "t", "i", "t", "l", "e", ":", " ", "T", "\n", "-", "-", "-", "m", "o", "r", "e", "\n", "B", "o", "d", "y">>,      \* ---\ntitle: T\n---more\nBody
      <<"-", "-", "-", "\n", "x", ":", " ", "1", "\n", "-", "-", "-", "-">>,      \* ---\nx: 1\n----
      <<"-", "-", "-", " ", "\n", "x", ":", " ", "1", "\n", "-", "-", "-", "\n">>,      \* --- \nx: 1\n---\n
      <<" ", "-", "-", "-", "\n", "x", ":", " ", "1", "\n", "-", "-", "-", "\n">>,      \*  ---\nx: 1\n---\n
      <<"-", "-", "-", "\r", "\n", "x", ":", " ", "1", "\r", "\n", "-", "-", "-", "\r">>,      \* ---\r\nx: 1\r\n---\r
      <<"-", "-", "-", "\n", "-", "-", "-", "\n", "B", "o", "d", "y">>,      \* ---\n---\nBody
      <<"x", "\n", "-", "-", "-", "\n", "y", ":", " ", "1", "\n", "-", "-", "-", "\n">>,      \* x\n---\ny: 1\n---\n
      <<"-", "-", "-", "\n", "x", ":", " ", "1", "\n", "B", "o", "d", "y">>,      \* ---\nx: 1\nBody
      <<"-", "-", "-", "x", "\n", "y", ":", " ", "1", "\n", "-", "-", "-", "\n">>      \* ---x\ny: 1\n---\n
    }

\* the text of a scalar in a block, and the value it stands for: quoted
\* strings, integers, booleans, nulls, a float, an inline array, raw strings
SampleScalarTexts ==
    {
      [raw |-> <<"\"", "4", "2", "\"">>, value |-> StrV(<<"4", "2">>)],
      [raw |-> <<"\"", "t", "r", "u", "e", "\"">>, value |-> StrV(<<"t", "r", "u", "e">>)],
      [raw |-> <<"\"", "n", "u", "l", "l", "\"">>, value |-> StrV(<<"n", "u", "l", "l">>)],
      [raw |-> <<"'", "q", "'">>, value |-> StrV(<<"q">>)],
      [raw |-> <<"4", "2">>, value |-> NumV(42, 0)],
      [raw |-> <<"-", "7">>, value |-> NumV(0 - 7, 0)],
      [raw |-> <<"t", "r", "u", "e">>, value |-> BoolV(TRUE)],
      [raw |-> <<"F", "a", "l", "s", "e">>, value |-> BoolV(FALSE)],
      [raw |-> <<"n", "u", "l", "l">>, value |-> NullV],
      [raw |-> <<"~">>, value |-> NullV],
      [raw |-> <<"1", ".", "5">>, value |-> NumV(15, 1)],
      [raw |-> <<"[", "a", ",", " ", "4", "2", "]">>, value |-> ArrV(<<StrV(<<"a">>), NumV(42, 0)>>)],
      [raw |-> <<"p", "l", "a", "i", "n">>, value |-> StrV(<<"p", "l", "a", "i", "n">>)],
      [raw |-> <<"4", "x">>, value |-> StrV(<<"4", "x">>)],
      [raw |-> <<"\"", "a">>, value |-> StrV(<<"\"", "a">>)]
    }

\* the block with the one line "v: raw"
KV == <<"v">>
ScalarBlock(raw) == Delim \o <<"\n">> \o KV \o <<":", " ">> \o raw \o <<"\n">> \o Delim \o <<"\n">>

\* string values that need quotes and string values that do not
SampleValueStrings ==
    {
      <<"a", ":", " ", "b">>,      \* a: b
      <<"p", "l", "a", "i", "n">>,      \* plain
      <<"a", "\n", "b">>,      \* a\nb
      <<" ", "a">>,      \*  a
      <<"a", " ">>,      \* a 
      <<"[", "a">>,      \* [a
      <<"]", "a">>,      \* ]a
      <<"{", "a">>,      \* {a
      <<"}", "a">>,      \* }a
      <<">", "a">>,      \* >a
      <<"|", "a">>,      \* |a
      <<"*", "a">>,      \* *a
      <<"&", "a">>,      \* &a
      <<"!", "a">>,      \* !a
      <<"%", "a">>,      \* %a
      <<"@", "a">>,      \* @a
      <<Grave, "a">>,      \* (grave accent)a
      <<"s", "a", "y", " ", "\"", "h", "i", "\"", ":", " ", "x">>,      \* say "hi": x
      <<"a", "\"", "b">>,      \* a"b
      <<"a", "[", "b">>,      \* a[b
      <<"-", "x">>,      \* -x
      <<>>      \* (empty)
    }

\* texts with headings, and the heading texts asked for
SampleHeadingTexts ==
    {
      <<"#", " ", "A", "\n", "\n", "t", "e", "x", "t", "\n", "#", "#", " ", "B", "\n", "m", "o", "r", "e", "\n", "#", " ", "C", "\n">>,      \* # A\n\ntext\n## B\nmore\n# C\n
      <<"#", " ", "A", "\r", "\n", "\r", "\n", "t", "e", "x", "t", "\r", "\n", "#", "#", " ", "B", "\r", "\n", "m", "o", "r", "e", "\r", "\n", "#", " ", "C", "\r", "\n">>,      \* # A\r\n\r\ntext\r\n## B\r\nmore\r\n# C\r\n
      <<"#", " ", "A", "\n", "#", "#", "#", "#", " ", "D", "e", "e", "p", "\n", "x", "\n", "#", "#", " ", "b", "\n", "y", "\n", "#", "#", "#", " ", "C", "\n", "z", "\n", "#", "#", " ", "D", "\n">>,      \* # A\n#### Deep\nx\n## b\ny\n### C\nz\n## D\n
      <<"#", " ", " ">>,      \* #  
      <<"#", "#", "#", "#", "#", "#", "#", " ", "s", "e", "v", "e", "n", "\n", "#", "n", "o", "s", "p", "a", "c", "e", "\n", " ", "#", " ", "i", "n", "d", "e", "n", "t", "e", "d", "\n", "#", "\t", "t", "a", "b">>,      \* ####### seven\n#nospace\n # indented\n#\ttab
      <<"#", " ", "a", "\r", "b", "\n", "#", " ", "o", "k">>,      \* # a\rb\n# ok
      <<"i", "n", "t", "r", "o", "\n", "#", " ", "A", "\n", " ", " ", "b", "o", "d", "y", " ", " ", "\n", "\n">>,      \* intro\n# A\n  body  \n\n
      <<"#", " ", "s", "a", "m", "e", "\n", "o", "n", "e", "\n", "#", " ", "S", "a", "m", "e", "\n", "t", "w", "o">>      \* # same\none\n# Same\ntwo
    }

SampleWanted ==
    {
      <<"B">>,      \* B
      <<"b">>,      \* b
      <<"A">>,      \* A
      <<"s", "a", "m", "e">>,      \* same
      <<>>,      \* (empty)
      <<"z", "z", "z">>      \* zzz
    }

\* texts with wikilinks, and texts with inline tags
SampleNoteLinkTexts ==
    {
      <<"[", "[", "a", "]", "]", "[", "[", "b", "|", "c", "]", "]", "!", "[", "[", "d", "]", "]">>,      \* [[a]][[b|c]]![[d]]
      <<"[", "[", "N", "o", "t", "e", "#", "I", "n", "t", "r", "o", "]", "]">>,      \* [[Note#Intro]]
      <<"s", "e", "e", " ", "[", "[", "N", "o", "t", "e", "]", "]", " ", "a", "n", "d", " ", "[", "[", "O", "t", "h", "e", "r", "#", "S", "e", "c", "|", "s", "h", "o", "w", "n", "]", "]", ".">>,      \* see [[Note]] and [[Other#Sec|shown]].
      <<"[", "[", "a", "]", "b", "]", "]", " ", "[", "[", "c", "|", "d", "]", "e", "]", "]", " ", "[", "[", "x", "#", "y", "]", "z", "]", "]">>,      \* [[a]b]] [[c|d]e]] [[x#y]z]]
      <<"[", "[", " ", "s", "p", "a", "c", "e", "d", " ", "#", " ", "h", "e", "a", "d", " ", "|", " ", "s", "h", "o", "w", "n", " ", "]", "]">>,      \* [[ spaced # head | shown ]]
      <<"[", "[", "]", "]", " ", "[", "[", "a", "#", "]", "]", " ", "[", "[", "b", "|", "]", "]", " ", "[", "[", "[", "c", "]", "]">>,      \* [[]] [[a#]] [[b|]] [[[c]]
      <<"!", "[", "[", "i", "m", "g", ".", "p", "n", "g", "|", "1", "0", "0", "]", "]", " ", "[", "[", "a", "#", "b", "#", "c", "|", "d", "|", "e", "]", "]">>,      \* ![[img.png|100]] [[a#b#c|d|e]]
      <<"[", "[", "#", "H", "e", "a", "d", "i", "n", "g", "]", "]">>,      \* [[#Heading]]
      <<"[", "t", "e", "x", "t", "]", "(", "h", "t", "t", "p", "s", ":", "/", "/", "x", ".", "c", "o", "m", "/", "#", "f", "r", "a", "g", ")">>,      \* [text](https://x.com/#frag)
      <<"[", "[", "a", "\n", "|", "b", "]", "]", " ", "[", "[", "p", "|", "q">>      \* [[a\n|b]] [[p|q
    }

SampleInlineTagTexts ==
    {
      <<"#", "a", "-", "#", "b">>,      \* #a-#b
      <<"#", "a", "/", "#", "b", " ", "#", "c">>,      \* #a/#b #c
      <<Grave, Grave, Grave, "\n", "#", "c", "o", "d", "e", "\n", Grave, Grave, Grave, "\n", "#", "r", "e", "a", "l">>,      \* a fenced code block with #code, then #real
      <<"(", "#", "p", ")", "#", "q">>,      \* (#p)#q
      <<"#", "T", "1", "_", "x", "-", "y", "/", "z", "!">>,      \* #T1_x-y/z!
      <<"#", " ", "h", " ", "#">>,      \* # h #
      <<"a", "#", " ", "#">>      \* a# #
    }

\* texts that start with ---, and a text with words
SampleStripTexts ==
    {
      <<"-", "-", "-", "m", "o", "r", "e", "\n", "-", "-", "-", "\n", "B", "o", "d", "y">>,      \* ---more\n---\nBody
      <<"-", "-", "-", "\n", "a", ":", " ", "b", "-", "-", "-", "c", "\n", "-", "-", "-", "\n", "B", "o", "d", "y", " ", "h", "e", "r", "e">>,      \* ---\na: b---c\n---\nBody here
      <<"o", "n", "e", " ", Grave, "t", "w", "o", Grave, " ", "*", "*", "t", "h", "r", "e", "e", "*", "*", " ", "[", "[", "f", "o", "u", "r", "|", "f", "i", "v", "e", "]", "]">>      \* one (grave accent)two(grave accent) **three** [[four|five]]
    }

SampleInputs ==
    SampleStripTexts \cup SampleHeadingTexts \cup SampleNoteLinkTexts \cup SampleInlineTagTexts
    \cup SampleTagTexts \cup SampleLinkTexts \cup SampleSummaryTexts
    \cup SampleBlockTexts \cup {ScalarBlock(e.raw) : e \in SampleScalarTexts}
    \cup SampleValueStrings

InitFunctions ==
    /\ input \in SampleInputs
    /\ output = NoOutput
    /\ RoundTripIdle
    /\ CallsIdle
    /\ CodecIdle
    /\ LinksIdle

Returned(fn, arg, value) == [fn |-> fn, arg |-> arg, value |-> value]

functionFrame == <<input, roundTripVars, codecVars, linksVars, callVars>>

GetAllTags ==
    /\ output' = Returned("getAllTags", <<>>, getAllTags(input))
    /\ UNCHANGED functionFrame

GetSummary ==
    /\ \E maxLength \in SampleLengths :
          output' = Returned("getSummary", maxLength, getSummary(input, maxLength))
    /\ UNCHANGED functionFrame

ParseFrontmatter ==
    /\ output' = Returned("parseFrontmatter", <<>>, parseFrontmatter(input))
    /\ UNCHANGED functionFrame

\* stringifyFrontmatter({note: input})
StringifyFrontmatter ==
    /\ output' = Returned("stringifyFrontmatter", <<>>,
                          stringifyFrontmatter(<<[k |-> KNote, v |-> StrV(input)]>>))
    /\ UNCHANGED functionFrame

ExtractHeadings ==
    /\ output' = Returned("extractHeadings", <<>>, extractHeadings(input))
    /\ UNCHANGED functionFrame

GetContentUnderHeading ==
    /\ \E wanted \in SampleWanted :
          output' = Returned("getContentUnderHeading", wanted,
                             getContentUnderHeading(input, wanted))
    /\ UNCHANGED functionFrame

ExtractInternalLinks ==
    /\ output' = Returned("extractInternalLinks", <<>>, extractInternalLinks(input))
    /\ UNCHANGED functionFrame

ExtractTagLinks ==
    /\ output' = Returned("extractTagLinks", <<>>, extractTagLinks(input))
    /\ UNCHANGED functionFrame

CountWords ==
    /\ output' = Returned("countWords", <<>>, countWords(input))
    /\ UNCHANGED functionFrame

NextFunctions ==
    \/ CountWords
    \/ GetAllTags \/ GetSummary \/ ParseFrontmatter \/ StringifyFrontmatter
    \/ ExtractHeadings \/ GetContentUnderHeading
    \/ ExtractInternalLinks \/ ExtractTagLinks

SpecFunctions == InitFunctions /\ [][NextFunctions]_vars

----------------------------------------------------------------------------
(* Claims about the pure functions *)

Elements(items) == {items[i] : i \in 1..Len(items)}

Distinct(items) ==
    \A i, j \in 1..Len(items) : items[i] = items[j] => i = j

\* the inline tags the structure extractor finds in a text
ExtractedTags(c) ==
    {StrV(extractTagLinks(c)[i].target) : i \in 1..Len(extractTagLinks(c))}

MergedTags(parsed) ==
    Elements(frontmatterTags(parsed.frontmatter)) \cup ExtractedTags(parsed.body)

\* C14: getAllTags returns, without duplicates, exactly the tags of the
\* frontmatter tags sequence and the inline tags that extractTagLinks finds
\* in the body.
AllTagsAreExtractedTags ==
    output.fn = "getAllTags" =>
        /\ Distinct(output.value)
        /\ Elements(output.value) = MergedTags(parseFrontmatter(input))

----------------------------------------------------------------------------
(* Claims about the tools that rewrite a note *)

Named(updates) == {updates[i].k : i \in 1..Len(updates)}

Keys(fm) == {fm[i].k : i \in 1..Len(fm)}

\* every key of the object before that the updates do not name has the
\* same value in the object after
Preserved(before, after, updates) ==
    \A k \in Keys(before) \ Named(updates) :
        Has(after, k) /\ Get(after, k) = Get(before, k)

\* C15: after update_frontmatter, the first or a repeated one, every
\* frontmatter key of the note that the updates do not name has, in the
\* parsed result, the value it had in the parsed input.
UnspecifiedFieldsPreserved ==
    lastOp.op = "updateFrontmatter" =>
        Preserved(parseFrontmatter(lastOp.before).frontmatter,
                  parseFrontmatter(content).frontmatter, lastOp.arg)

----------------------------------------------------------------------------
(* Claims about getSummary *)

Summary == output.fn = "getSummary"

\* what a reader sees of a link: its display text, or the target of a
\* wikilink that has none
WikilinkShown(w) ==
    trim(w.pre \o (IF w.display = <<>> THEN w.target ELSE w.display) \o w.post)

MarkdownLinkShown(l) == trim(l.pre \o l.display \o l.post)

\* C16: the summary of a text with a wikilink or a markdown link, when it is
\* not truncated, is the text with the link replaced by its display text
\* alone ([[target]] by target): neither the target of an aliased wikilink
\* nor the url is in it.
LinksShowDisplayOnly ==
    Summary /\ output.arg >= Len(input) =>
        /\ \A w \in SampleWikilinks :
              input = WikilinkSource(w) => output.value = WikilinkShown(w)
        /\ \A l \in SampleMarkdownLinks :
              input = MarkdownLinkSource(l) => output.value = MarkdownLinkShown(l)

\* the cut of a text longer than n: before its last space when that space
\* lies in the last 30% of the first n characters, else the first n characters
LateSpaces(text, n) == {i \in 1..n : text[i] = " " /\ 10 * (i - 1) > 7 * n}

CutOf(text, n) ==
    IF LateSpaces(text, n) = {} THEN SubSeq(text, 1, n)
    ELSE SubSeq(text, 1, Max(LateSpaces(text, n)) - 1)

SummaryWithin(out, text, n) ==
    /\ Len(out) <= n + 3
    /\ Len(text) <= n => out = text
    /\ Len(text) > n => out = CutOf(text, n) \o Ellipsis

----------------------------------------------------------------------------
(* Claims about parseFrontmatter and stringifyFrontmatter *)

Parsed == output.fn = "parseFrontmatter"

NothingParsed(c) == [frontmatter |-> <<>>, body |-> c, raw |-> <<>>]

DelimiterLine(line) == line = Delim \/ line = Delim \o <<"\r">>

\* the first line is --- and a later line is ---
DelimiterLines(lines) ==
    /\ Len(lines) >= 2
    /\ lines[1] = Delim
    /\ \E i \in 2..Len(lines) : DelimiterLine(lines[i])

\* C18: parseFrontmatter returns empty frontmatter, an empty raw block and
\* the whole input as body for every input that does not start with a line
\* that is exactly --- closed by a later line that is exactly ---.
BlockOnlyBetweenDelimiterLines ==
    Parsed /\ ~DelimiterLines(splitLines(input)) =>
        output.value = NothingParsed(input)

\* C19: in a frontmatter block a value in quotes is the string between the
\* quotes, also when it reads 42, true or null, while the bare true, null,
\* 42, 1.5 and [a, 42] are a boolean, null, an integer, a float and an
\* array, and every other text is a string.
ScalarCoercion ==
    Parsed =>
        \A e \in SampleScalarTexts :
            input = ScalarBlock(e.raw) =>
                output.value.frontmatter = <<[k |-> KV, v |-> e.value]>>

\* the block "v: "42"" was parsed, to the string 42
ScalarCoercionWitness ==
    /\ Parsed
    /\ input = ScalarBlock(<<"\"", "4", "2", "\"">>)
    /\ output.value.frontmatter = <<[k |-> KV, v |-> StrV(<<"4", "2">>)]>>

Stringified == output.fn = "stringifyFrontmatter"

QuotedStart == {"[", "]", "{", "}", ">", "|", "*", "&", "!", "%", "@", Grave}

\* the strings the writer is to put in quotes
MustQuote(str) ==
    \/ \E i \in 1..Len(str) : str[i] \in {":", "#", "\n"}
    \/ str # <<>> /\ (str[1] = " " \/ str[Len(str)] = " " \/ str[1] \in QuotedStart)

Escaped(str) ==
    Flatten([i \in 1..Len(str) |->
                IF str[i] = "\"" THEN <<"\\", "\"">> ELSE <<str[i]>>],
            1, Len(str))

NoteBlock(text) ==
    Delim \o <<"\n">> \o KNote \o <<":", " ">> \o text \o <<"\n">> \o Delim \o <<"\n">>

\* C20: stringifyFrontmatter({note: s}) writes s between double quotes, its
\* double quotes escaped, exactly when s contains ":", "#" or a newline,
\* starts or ends with a space, or starts with one of [ ] { } > | * & ! % @
\* or a grave accent; it writes every other string bare.
QuotedExactlyWhenNeeded ==
    Stringified =>
        output.value = NoteBlock(IF MustQuote(input)
                                 THEN <<"\"">> \o Escaped(input) \o <<"\"">>
                                 ELSE input)

\* {note: "a: b"} was written with quotes
QuotedWitness ==
    /\ Stringified
    /\ input = <<"a", ":", " ", "b">>
    /\ output.value = NoteBlock(<<"\"", "a", ":", " ", "b", "\"">>)

----------------------------------------------------------------------------
(* Claims about removeTags *)

Removed == lastOp.op = "removeTags"

\* the requested tags, leading # off, lowercased
Requested(tags) == {toLowerCase(stripHash(tags[i])) : i \in 1..Len(tags)}

\* the tags that no requested tag equals ignoring case, in their order
RECURSIVE KeptTags(_, _)
KeptTags(old, requested) ==
    IF old = <<>> THEN <<>>
    ELSE (IF old[1].t = "str" /\ toLowerCase(old[1].s) \in requested
          THEN <<>> ELSE <<old[1]>>) \o KeptTags(Tail(old), requested)

HasTagsSequence(fm) == IsArrayField(fm, KeyTags)

RemovedExactly(before, after, tags) ==
    IF HasTagsSequence(parseFrontmatter(before).frontmatter)
    THEN TagsOf(after) = KeptTags(TagsOf(before), Requested(tags))
    ELSE after = before

\* C21: removeTags returns a content whose frontmatter tags are the tags of
\* the input that equal no requested tag (case and a leading # of the
\* requested tag ignored), in their original order; a content without a tags
\* sequence is returned unchanged.
RemoveTagsExact ==
    Removed =>
        /\ ~lastOp.threw
        /\ RemovedExactly(lastOp.before, content, lastOp.arg)

----------------------------------------------------------------------------
(* Claims about the headings *)

Section == output.fn = "getContentUnderHeading"

\* the headings whose text is the wanted one, case ignored
MatchesOf(H, wanted) ==
    {k \in 1..Len(H) : toLowerCase(H[k].text) = toLowerCase(wanted)}

\* no heading on the lines after line first up to line last is of the rank
\* of level or of a higher rank
NoneCloses(H, first, last, level) ==
    \A j \in 1..Len(H) :
        H[j].lineNumber > first /\ H[j].lineNumber <= last => H[j].level > level

\* line last is the last line of the document or the line before a heading
\* of the rank of level or of a higher rank
ClosedAfter(H, lines, last, level) ==
    \/ last = Len(lines)
    \/ \E j \in 1..Len(H) : H[j].lineNumber = last + 1 /\ H[j].level <= level

\* the lines after line first up to line last, as they are
LinesBetween(lines, first, last) == join(SubSeq(lines, first + 1, last), <<"\n">>)

SectionOfHeading(out, H, lines, h, Text(_)) ==
    /\ out.found
    /\ \E last \in h.lineNumber..Len(lines) :
          /\ NoneCloses(H, h.lineNumber, last, h.level)
          /\ ClosedAfter(H, lines, last, h.level)
          /\ out.text = Text(LinesBetween(lines, h.lineNumber, last))

SectionLaw(out, H, lines, matches, Text(_)) ==
    IF matches = {} THEN ~out.found
    ELSE SectionOfHeading(out, H, lines, H[Min(matches)], Text)

AsIs(text) == text

\* C22 as stated: the section returned for the first heading whose text
\* equals the wanted one, case ignored, is the lines after it up to the next
\* heading of the same or a higher rank or the end of the document, and
\* the result is null exactly when no heading matches.
SectionIsTheLines ==
    Section =>
        SectionLaw(output.value, extractHeadings(input), splitLines(input),
                   MatchesOf(extractHeadings(input), output.arg), AsIs)

\* C22: the section returned is those lines joined by \n with the
\* whitespace at both ends of the whole trimmed off.
SectionIsTheLinesTrimmed ==
    Section =>
        SectionLaw(output.value, extractHeadings(input), splitLines(input),
                   MatchesOf(extractHeadings(input), output.arg), trim)

\* the section under B of the document # A, text, ## B, more, # C
SectionWitness ==
    /\ Section
    /\ input = <<"#", " ", "A", "\n", "\n", "t", "e", "x", "t", "\n", "#", "#", " ", "B", "\n", "m", "o", "r", "e", "\n", "#", " ", "C", "\n">>
    /\ output.arg = <<"b">>
    /\ output.value = [found |-> TRUE, text |-> <<"m", "o", "r", "e">>]

Extracted == output.fn = "extractHeadings"

\* the number of # a line starts with, and the index after the whitespace
\* that follows them
HashCount(line) == runPast(line, 1, {"#"}) - 1
TextStart(line) == runPast(line, HashCount(line) + 1, Spaces)

\* 1 to 6 #, whitespace, text
StatedHeadingLine(line) ==
    /\ HashCount(line) \in 1..MaxHeadingLevel
    /\ TextStart(line) > HashCount(line) + 1
    /\ TextStart(line) <= Len(line)

LinesAndLevels(H) == {<<H[k].lineNumber, H[k].level>> : k \in 1..Len(H)}

HeadingLinesOf(lines, IsHeadingLine(_)) ==
    {<<i, HashCount(lines[i])>> : i \in {j \in 1..Len(lines) : IsHeadingLine(lines[j])}}

InDocumentOrder(H) ==
    \A k \in 1..Len(H) - 1 : H[k].lineNumber < H[k + 1].lineNumber

LevelsInRange(H) == \A k \in 1..Len(H) : H[k].level \in 1..MaxHeadingLevel

\* the text with every \n made \r\n
RECURSIVE ToCRLF(_)
ToCRLF(text) ==
    IF text = <<>> THEN <<>>
    ELSE (IF Head(text) = "\n" THEN <<"\r", "\n">> ELSE <<Head(text)>>)
         \o ToCRLF(Tail(text))

SameWithCRLF(text, H) ==
    (\A j \in 1..Len(text) : text[j] # "\r") => extractHeadings(ToCRLF(text)) = H

HeadingsLaw(H, text, lines, IsHeadingLine(_)) ==
    /\ LinesAndLevels(H) = HeadingLinesOf(lines, IsHeadingLine)
    /\ InDocumentOrder(H)
    /\ LevelsInRange(H)
    /\ SameWithCRLF(text, H)

\* C26: extractHeadings returns one record per line made of 1 to
\* 6 #, whitespace and text, in document order with increasing line
\* numbers and the number of # as level, the same for \n and \r\n endings.
HeadingsAreStatedLines ==
    Extracted =>
        HeadingsLaw(output.value, input, splitLines(input), StatedHeadingLine)

----------------------------------------------------------------------------
(* Claims about the wikilinks *)

Links == output.fn = "extractInternalLinks"

NoneOf(s, set) == \A j \in 1..Len(s) : s[j] \notin set

\* C23: a wikilink written without a display part, the heading form
\* included, gives a link whose displayText is its target field.
DisplayDefaultsToTarget ==
    (Links /\ NoneOf(input, {"|"})) =>
        \A k \in 1..Len(output.value) :
            output.value[k].displayText = output.value[k].target

\* a part of a wikilink: one character at least, none of them in set
Field(s, set) == s # <<>> /\ NoneOf(s, set)

\* the text between [[ and ]] is a target that ends at index t, then
\* nothing or # and a heading that ends at index h, then nothing or | and a
\* display text
WellFormedParts(s, t, h) ==
    /\ Field(SubSeq(s, 1, t), {"]", "|", "#"})
    /\ \/ h = t
       \/ s[t + 1] = "#" /\ Field(SubSeq(s, t + 2, h), {"]", "|"})
    /\ \/ h = Len(s)
       \/ s[h + 1] = "|" /\ Field(SubSeq(s, h + 2, Len(s)), {"]"})

WellFormedInner(s) ==
    \E t \in 1..Len(s) : \E h \in t..Len(s) : WellFormedParts(s, t, h)

\* the index of the last ] of the well-formed wikilink whose [[ is at
\* index i and whose first ] is at index k, 0 when there is none
WikilinkEndAt(text, i, k) ==
    IF HasAt(text, k, <<"]", "]">>) /\ WellFormedInner(SubSeq(text, i + 2, k - 1))
    THEN k + 1 ELSE 0

WikilinkEnd(text, i) ==
    IF HasAt(text, i, <<"[", "[">>)
    THEN WikilinkEndAt(text, i, RunEnd(text, i + 2, {"]"})) ELSE 0

\* the well-formed wikilinks of a text from index i on, from left to right
RECURSIVE Wikilinks(_, _)

WikilinksStep(text, i, end) ==
    IF end = 0 THEN Wikilinks(text, i + 1)
    ELSE <<[from |-> i, to |-> end]>> \o Wikilinks(text, end + 1)

Wikilinks(text, i) ==
    IF i > Len(text) THEN <<>> ELSE WikilinksStep(text, i, WikilinkEnd(text, i))

EmbedAt(text, w) == w.from > 1 /\ text[w.from - 1] = "!"

TargetAt(text, w) ==
    trim(SubSeq(text, w.from + 2, RunEnd(text, w.from + 2, {"]", "|", "#"}) - 1))

IsPrefix(p, s) == Len(p) <= Len(s) /\ SubSeq(s, 1, Len(p)) = p

LinkOfWikilink(link, text, w) ==
    /\ link.isEmbed = EmbedAt(text, w)
    /\ IsPrefix(TargetAt(text, w), link.target)
    /\ NoneOf(link.target, {"]"})
    /\ NoneOf(link.displayText, {"]"})

OneLinkEach(links, text, W) ==
    /\ Len(links) = Len(W)
    /\ \A k \in 1..Len(links) : LinkOfWikilink(links[k], text, W[k])

\* C25: extractInternalLinks returns one link per well-formed wikilink of
\* the text, in document order, adjacent wikilinks included, and no target
\* (heading included) or display text of a link holds a ].
OneLinkPerWikilink ==
    Links => OneLinkEach(output.value, input, Wikilinks(input, 1))

\* the three links of [[a]][[b|c]]![[d]]
AdjacentLinksWitness ==
    /\ Links
    /\ input = <<"[", "[", "a", "]", "]", "[", "[", "b", "|", "c", "]", "]", "!", "[", "[", "d", "]", "]">>
    /\ output.value =
          << [target |-> <<"a">>, displayText |-> <<"a">>, isEmbed |-> FALSE],
             [target |-> <<"b">>, displayText |-> <<"c">>, isEmbed |-> FALSE],
             [target |-> <<"d">>, displayText |-> <<"d">>, isEmbed |-> TRUE] >>

----------------------------------------------------------------------------
(* Claims about the tag links *)

TagLinks == output.fn = "extractTagLinks"

\* a # at index i, at the start of the text or after a character that is
\* no word character, and before a letter
TagStartsAt(text, i) ==
    /\ text[i] = "#"
    /\ i = 1 \/ ~IsWordChar(text[i - 1])
    /\ i + 1 <= Len(text)
    /\ IsAlpha(text[i + 1])

\* the letter after the # at index i and the run of letters, digits, _, -
\* and / after it
TagAt(text, i) ==
    LET stops == {j \in i + 2..Len(text) : ~IsTagChar(text[j])}
    IN  SubSeq(text, i + 1, IF stops = {} THEN Len(text) ELSE Min(stops) - 1)

StatedTags(text) ==
    Flatten([i \in 1..Len(text) |->
                IF TagStartsAt(text, i) THEN <<TagAt(text, i)>> ELSE <<>>],
            1, Len(text))

TargetsOf(links) == [k \in 1..Len(links) |-> links[k].target]

\* C24: extractTagLinks reports a tag exactly for every # that is at the
\* start of the text or right after a character that is no word character
\* and that is followed by a letter, the tag being the letter and the run
\* of letters, digits, _, - and / after it, inside a fenced code block too.
TagsAreStatedTags ==
    TagLinks => TargetsOf(output.value) = StatedTags(input)

\* the # at index i is between [[ and ]] of a wikilink
InWikilink(text, i) ==
    /\ \E a \in 1..i - 2 :
          HasAt(text, a, <<"[", "[">>) /\ NoneOf(SubSeq(text, a + 2, i), {"]"})
    /\ \E b \in i + 1..Len(text) :
          HasAt(text, b, <<"]", "]">>) /\ NoneOf(SubSeq(text, i, b - 1), {"]"})

\* the # at index i is between ]( and ) of a markdown link
InLinkUrl(text, i) ==
    /\ \E a \in 1..i - 2 :
          HasAt(text, a, <<"]", "(">>) /\ NoneOf(SubSeq(text, a + 2, i), {")"})
    /\ \E b \in i + 1..Len(text) : text[b] = ")"

OnlyInLinks(text) ==
    /\ \E i \in 1..Len(text) : text[i] = "#"
    /\ \A i \in 1..Len(text) :
          text[i] = "#" => InWikilink(text, i) \/ InLinkUrl(text, i)

\* C30: a text whose every # is inside a link, in the URL of a markdown
\* link or between the brackets of a wikilink, has no tag link.
TagsNotInLinks ==
    (TagLinks /\ OnlyInLinks(input)) => output.value = <<>>

----------------------------------------------------------------------------
(* Claims about the frontmatter that getSummary and countWords strip *)

Strips == output.fn \in {"getSummary", "countWords"}

\* C29: the text that getSummary and countWords remove as frontmatter is
\* the raw block of parseFrontmatter: nothing where parseFrontmatter finds
\* no frontmatter.
StripsTheParsedBlock ==
    Strips => parseFrontmatter(input).raw \o withoutFrontmatter(input) = input

----------------------------------------------------------------------------
(* Claims about errors and about concurrent calls *)

\* C27: no operation of the codec raises, whatever the content, a tags
\* sequence with values that parse as numbers, booleans or null included.
NoOperationRaises == ~lastOp.threw

(* Two add_tags calls on one note. A handler runs alone between two awaits:
   the GET of getFile answers with the content of the note at that moment
   and the handler then computes the new content; the PUT of putFile
   replaces the content of the note. *)

Calls == {1, 2}

SampleCallTags ==
    { <<<<"x">>>>,                    \* x
      <<<<"y">>>>,                    \* y
      <<<<"a">>, <<"#", "b">>>> }     \* a, #b

NewCall(tags) ==
    [tags |-> tags, pc |-> "getFile", content |-> <<>>, updatedContent |-> <<>>]

InitAddTags ==
    /\ file \in SampleContents
    /\ calls \in [Calls -> {NewCall(tags) : tags \in SampleCallTags}]
    /\ RoundTripIdle
    /\ CodecIdle
    /\ LinksIdle
    /\ FunctionsIdle

\* const content = await client.getFile(filePath);
\* const updatedContent = addTags(content, tags);
AddTagsGetFile ==
    /\ \E c \in Calls :
          /\ calls[c].pc = "getFile"
          /\ calls' = [calls EXCEPT ![c].content = file,
                                    ![c].updatedContent = addTags(file, calls[c].tags),
                                    ![c].pc = "putFile"]
    /\ UNCHANGED <<file, roundTripVars, codecVars, linksVars, functionVars>>

\* await client.putFile(filePath, updatedContent);
AddTagsPutFile ==
    /\ \E c \in Calls :
          /\ calls[c].pc = "putFile"
          /\ file' = calls[c].updatedContent
          /\ calls' = [calls EXCEPT ![c].pc = "done"]
    /\ UNCHANGED <<roundTripVars, codecVars, linksVars, functionVars>>

NextAddTags == AddTagsGetFile \/ AddTagsPutFile

SpecAddTags == InitAddTags /\ [][NextAddTags]_vars

BothDone == DOMAIN calls = Calls /\ \A c \in Calls : calls[c].pc = "done"

TagsOfFile(parsed) == Elements(frontmatterTags(parsed.frontmatter))

AddedBy(tags) == Elements(normalizedTags(tags))

\* C28: when two add_tags calls on one note have both finished, the note
\* has the tags added by the one and by the other, however their reads
\* and writes were interleaved.
NoLostUpdate ==
    BothDone =>
        \A c \in Calls :
            AddedBy(calls[c].tags) \subseteq TagsOfFile(parseFrontmatter(file))

====
